---- MODULE Spec2Model ----
(***************************************************************************)
(* A model of plex_sync.py: the incremental reconciliation engine that     *)
(* mirrors a Plex catalog (movies; shows/seasons/episodes;                 *)
(* artists/albums/tracks) into a SQLite store.                             *)
(*                                                                         *)
(* The store is modelled twice: `store' is what the open connection reads  *)
(* (committed rows plus the changes of the open transaction), `durable' is *)
(* what has been committed.  A library pass is one atomic action that      *)
(* follows the control flow of process_movies / process_tvshows /          *)
(* process_music, including the statements that raise.                     *)
(*                                                                         *)
(* Abstractions: md5 is taken to be collision free (the digest is the      *)
(* string that is hashed); descriptive columns (summary, genres, ...) and  *)
(* the human readable columns are left out of the rows; a list of the      *)
(* catalog is returned in ascending rating-key order except for the        *)
(* artists, whose order is an input because process_music leaks loop       *)
(* variables from one artist to the next.                                  *)
(***************************************************************************)
EXTENDS Integers, Sequences, FiniteSets, TLC

VARIABLES store, durable, schema, pc, todo, runs, USE_PARALLEL, DOWNLOAD_IMAGES, last

vars == <<store, durable, schema, pc, todo, runs, USE_PARALLEL, DOWNLOAD_IMAGES, last>>

----------------------------------------------------------------------------
(* Bounds of the model *)

MaxTop == 2
MaxMid == 2
MaxLeaf == 2
MaxRuns == 1
MaxReruns == 2
MaxMarks == 1
MaxAggregates == 1
MaxHashes == 1
MaxSchemaRuns == 2

MaxImagePasses == 1
max_retries == 3

(* image tasks of one download stage, and how many of them may fail or raise *)
MaxTasks == 12
MaxFailing == 2
MaxRaising == 1

(* the largest max_retries a call of fetch_with_retry is given *)
MaxRetriesArg == 4

TopKeys == 1..MaxTop
MidKeys == 1..MaxMid
LeafKeys == 1..MaxLeaf

(* The containment hierarchy of the catalog is fixed: every season/album   *)
(* belongs to show/artist 1 and every episode/track to season/album 1, so  *)
(* that one parent has several children and the other parents have none.   *)
TopOf(m) == 1
MidOf(l) == 1

Sizes == {1, 2}
Durations == {3}

(* show.duration of the shows of the catalog: None (0 after `or 0') or a   *)
(* length of its own                                                       *)
ShowDurations == {0, 7}

Tables == {"movies", "tv_shows", "seasons", "episodes", "artists", "albums", "tracks"}

----------------------------------------------------------------------------
(* Sequences and strings.  A Python string is a sequence of characters.    *)

RECURSIVE SetToSeq(_)
SetToSeq(S) ==
    IF S = {} THEN <<>>
    ELSE LET m == CHOOSE x \in S : \A y \in S : x <= y
         IN  <<m>> \o SetToSeq(S \ {m})

RECURSIVE SumOver(_, _)
SumOver(S, f) ==
    IF S = {} THEN 0
    ELSE LET x == CHOOSE y \in S : TRUE
         IN  f[x] + SumOver(S \ {x}, f)

Range(s) == {s[i] : i \in 1..Len(s)}

Digit(d) ==
    CASE d = 0 -> "0" [] d = 1 -> "1" [] d = 2 -> "2" [] d = 3 -> "3"
      [] d = 4 -> "4" [] d = 5 -> "5" [] d = 6 -> "6" [] d = 7 -> "7"
      [] d = 8 -> "8" [] d = 9 -> "9"

RECURSIVE IntStr(_)
IntStr(n) == IF n < 10 THEN <<Digit(n)>> ELSE IntStr(n \div 10) \o <<Digit(n % 10)>>

NoneStr == <<"N", "o", "n", "e">>

(* the digest without its last field *)
calculate_media_hash_without_year(size_bytes, duration, codec, resolution, container, title, year) ==
    size_bytes \o <<"|">> \o duration \o <<"|">> \o codec \o <<"|">> \o resolution
        \o <<"|">> \o container \o <<"|">> \o title

(* f"{size_bytes}|{duration}|{codec}|{resolution}|{container}|{title}|{year}" *)
(* followed by md5(...).hexdigest(); the arguments are already rendered.     *)
calculate_media_hash(size_bytes, duration, codec, resolution, container, title, year) ==
    size_bytes \o <<"|">> \o duration \o <<"|">> \o codec \o <<"|">> \o resolution
        \o <<"|">> \o container \o <<"|">> \o title \o <<"|">> \o year

----------------------------------------------------------------------------
(* The catalog (the Plex server's answers), an input of every pass.        *)

(* A leaf of the catalog: absent, present without playable media           *)
(* (movie.media / media.parts empty), or present with a part of some size. *)
Absent == [kind |-> "absent", size |-> 0, duration |-> 0]
NoMedia == [kind |-> "nomedia", size |-> 0, duration |-> 0]
Media(s, d) == [kind |-> "media", size |-> s, duration |-> d]
LeafStates == {Absent, NoMedia} \cup {Media(s, d) : s \in Sizes, d \in Durations}

(* What one pass is given: the top-level items in list order, the          *)
(* seasons/albums and the episodes/tracks (or movies) the server holds,    *)
(* and at most one failing call.                                           *)
NoFault == [call |-> "none", key |-> 0, kind |-> "none"]
Fault(c, k, t) == [call |-> c, key |-> k, kind |-> t]
FaultKinds == {"transient", "permanent"}

Title(tbl, k) == <<"t">> \o IntStr(k)
Year == IntStr(2000)

----------------------------------------------------------------------------
(* The SQLite store.  A table is a function from the rating keys of its    *)
(* rows to the rows.                                                       *)

EmptyTable == [k \in {} |-> 0]
EmptyStore == [t \in Tables |-> EmptyTable]

Keys(st, tbl) == DOMAIN st[tbl]

Put(f, k, v) == [x \in (DOMAIN f) \cup {k} |-> IF x = k THEN v ELSE f[x]]
Drop(f, S) == [x \in (DOMAIN f) \ S |-> f[x]]

(* PRIMARY KEY column of each CREATE TABLE of init_database *)
PrimaryKey(tbl) == IF tbl = "seasons" THEN "seasonRatingKey" ELSE "ratingKey"

(* FOREIGN KEY ... REFERENCES of init_database: the parent rows a row names *)
ParentRefs(tbl, row) ==
    CASE tbl = "seasons" -> {<<"tv_shows", row.showRatingKey>>}
      [] tbl = "episodes" -> {<<"seasons", row.seasonRatingKey>>, <<"tv_shows", row.showRatingKey>>}
      [] tbl = "albums" -> {<<"artists", row.artistRatingKey>>}
      [] tbl = "tracks" -> {<<"albums", row.albumRatingKey>>, <<"artists", row.artistRatingKey>>}
      [] OTHER -> {}

(* ON DELETE CASCADE with PRAGMA foreign_keys = ON: deleting the rows in   *)
(* `gone' (pairs <<table, key>>) deletes every row that references one of  *)
(* them, transitively.                                                     *)
RECURSIVE CascadeClosure(_, _)
CascadeClosure(st, gone) ==
    LET more == {<<t, k>> \in UNION {{<<c, x>> : x \in Keys(st, c)} : c \in Tables} :
                    ParentRefs(t, st[t][k]) \cap gone # {}}
    IN  IF more \subseteq gone THEN gone ELSE CascadeClosure(st, gone \cup more)

DeleteCascade(st, tbl, k) ==
    LET gone == CascadeClosure(st, {<<tbl, k>>})
        left(t) == Drop(st[t], {x \in Keys(st, t) : <<t, x>> \in gone})
    IN  [movies |-> left("movies"), tv_shows |-> left("tv_shows"),
         seasons |-> left("seasons"), episodes |-> left("episodes"),
         artists |-> left("artists"), albums |-> left("albums"), tracks |-> left("tracks")]

(* One row of INSERT OR REPLACE INTO tbl: a row with the same primary key  *)
(* is deleted first (which cascades to its children), the new row is       *)
(* inserted, and the statement fails with IntegrityError when a parent the *)
(* row references does not exist.                                          *)
(* a connection on which PRAGMA foreign_keys = ON was not issued *)
ForeignKeysOff(st, tbl, row) == TRUE

ForeignKeysHold(st, tbl, row) == \A ref \in ParentRefs(tbl, row) : ref[2] \in Keys(st, ref[1])

InsertOrReplaceRow(st, tbl, k, row) ==
    LET cleared == IF k \in Keys(st, tbl) THEN DeleteCascade(st, tbl, k) ELSE st
    IN  [cleared EXCEPT ![tbl] = Put(cleared[tbl], k, row)]

(* Number of columns named and of "?" placeholders in the VALUES list of   *)
(* each INSERT OR REPLACE statement.                                       *)
InsertColumns ==
    [movies |-> 26, tv_shows |-> 23, seasons |-> 18, episodes |-> 24,
     artists |-> 11, albums |-> 16, tracks |-> 16]
InsertPlaceholders ==
    [movies |-> 25, tv_shows |-> 22, seasons |-> 18, episodes |-> 23,
     artists |-> 11, albums |-> 16, tracks |-> 16]

(* cursor.executemany(INSERT OR REPLACE ..., data): data is a sequence of  *)
(* [key, row].  The statement is compiled first, so a VALUES list that     *)
(* does not match the column list raises OperationalError before any row   *)
(* is written; otherwise the rows are written in order and the first row   *)
(* that violates a foreign key raises, the earlier rows staying in the     *)
(* open transaction.  Result: [st, ok].                                    *)
RECURSIVE InsertRows(_, _, _)
InsertRows(st, tbl, data) ==
    IF data = <<>> THEN [st |-> st, ok |-> TRUE]
    ELSE LET d == Head(data)
         IN  IF ForeignKeysHold(st, tbl, d.row)
             THEN InsertRows(InsertOrReplaceRow(st, tbl, d.key, d.row), tbl, Tail(data))
             ELSE [st |-> st, ok |-> FALSE]

executemany(st, tbl, data) ==
    IF InsertColumns[tbl] # InsertPlaceholders[tbl]
    THEN [st |-> st, ok |-> FALSE]
    ELSE InsertRows(st, tbl, data)

(* `if data: cursor.executemany(...)' *)
BatchInsert(st, tbl, data) ==
    IF data = <<>> THEN [st |-> st, ok |-> TRUE] ELSE executemany(st, tbl, data)

(* mark_unavailable(conn, table_name, seen_keys, library_type, key_column): *)
(* the UPDATE ... SET available = 0; with a non-empty seen_keys the WHERE  *)
(* clause names key_column, and sqlite raises OperationalError when the    *)
(* table has no such column.  Result: [st, ok]; on ok the caller's         *)
(* connection has committed.                                               *)
(* the `if not seen_keys' branch: "UPDATE t SET available = 0 WHERE available = 1" *)
MarkAll(st, table_name) ==
    [st |-> [st EXCEPT ![table_name] = [k \in DOMAIN @ |-> [@[k] EXCEPT !.available = 0]]],
     ok |-> TRUE]

(* the other branch: "... WHERE available = 1 AND <key_column> NOT IN (?, ...)" *)
MarkUnseen(st, table_name, seen_keys, key_column) ==
    IF key_column # PrimaryKey(table_name)
    THEN [st |-> st, ok |-> FALSE]
    ELSE [st |-> [st EXCEPT ![table_name] =
                    [k \in DOMAIN @ |->
                        IF k \notin seen_keys /\ @[k].available = 1
                        THEN [@[k] EXCEPT !.available = 0] ELSE @[k]]],
          ok |-> TRUE]

(* a mark_unavailable that returns at once when nothing was seen *)
mark_unavailable_unless_empty(st, table_name, seen_keys, key_column) ==
    IF seen_keys = {}
    THEN [st |-> st, ok |-> TRUE]
    ELSE MarkUnseen(st, table_name, seen_keys, key_column)

mark_unavailable(st, table_name, seen_keys, key_column) ==
    IF seen_keys = {}
    THEN MarkAll(st, table_name)
    ELSE MarkUnseen(st, table_name, seen_keys, key_column)

(* The callers all rely on the default key_column="ratingKey". A sequence  *)
(* of mark_unavailable calls, as at the end of a pass: each commits; the   *)
(* first that raises ends the pass.  calls is a sequence of                *)
(* [table, seen].  Result: [st, dur, ok].                                  *)
(* `affected': the rows an UPDATE of mark_unavailable changed, which the   *)
(* function logs as "Marked N item(s) as unavailable".                     *)
Affected(st, after, tbl) ==
    Cardinality({k \in Keys(st, tbl) : st[tbl][k].available = 1 /\ after[tbl][k].available = 0})

RECURSIVE Reconcile(_, _, _, _)
Reconcile(st, dur, calls, marked) ==
    IF calls = <<>> THEN [st |-> st, dur |-> dur, ok |-> TRUE, marked |-> marked]
    ELSE LET r == mark_unavailable(st, Head(calls).table, Head(calls).seen, "ratingKey")
         IN  IF r.ok THEN Reconcile(r.st, r.st, Tail(calls),
                                    marked + Affected(st, r.st, Head(calls).table))
             ELSE [st |-> st, dur |-> dur, ok |-> FALSE, marked |-> marked]

Call(tbl, seen) == [table |-> tbl, seen |-> seen]

Step(op, tbl) == <<op, tbl>>

(* the mark_unavailable calls Reconcile made, up to the one that raised *)
RECURSIVE MarkLog(_, _)
MarkLog(st, calls) ==
    IF calls = <<>> THEN <<>>
    ELSE LET r == mark_unavailable(st, Head(calls).table, Head(calls).seen, "ratingKey")
         IN  <<Step("mark", Head(calls).table)>>
               \o (IF r.ok THEN MarkLog(r.st, Tail(calls)) ELSE <<>>)

(* `if DOWNLOAD_IMAGES and image_tasks: ...' and the downloads made inside  *)
(* the item loop: all of them come before the first executemany            *)
ImagesLog(fetched) == IF fetched = {} THEN <<>> ELSE <<Step("images", "all")>>

(* `if data: cursor.executemany(...)' *)
InsertLog(tbl, data) == IF data = <<>> THEN <<>> ELSE <<Step("insert", tbl)>>

(* a pass that reconciles before it downloads and inserts *)
PassLogMarksFirst(images, persisted, marks) == marks \o images \o persisted

(* the stages of a pass after its item loop, in the order of the code: the *)
(* downloads, the batch inserts with their commit, the mark_unavailable    *)
(* calls                                                                   *)
PassLog(images, persisted, marks) == images \o persisted \o marks

----------------------------------------------------------------------------
(* Leaf extraction: the rows a movie, an episode and a track become.       *)

VideoCodec == <<"H", "2", "6", "4">>
VideoResolution == <<"1", "0", "8", "0", "p">>
VideoContainer == <<"m", "k", "v">>
AudioContainer == <<"m", "p", "3">>

(* process_movies, the hash of one movie with media *)
MovieHash(k, leaf) ==
    calculate_media_hash(IntStr(leaf.size), IntStr(leaf.duration), VideoCodec,
                         VideoResolution, VideoContainer, Title("movies", k), Year)

MovieRow(k, leaf) ==
    [available |-> 1, mediaHash |-> MovieHash(k, leaf),
     sizeBytes |-> leaf.size, duration |-> leaf.duration]

(* process_episode: None for an episode without media or parts, else its row *)
EpisodeHash(k, leaf) ==
    calculate_media_hash(IntStr(leaf.size), IntStr(leaf.duration), VideoCodec,
                         VideoResolution, VideoContainer, Title("episodes", k), Year)

EpisodeRow(k, leaf) ==
    [available |-> 1, seasonRatingKey |-> MidOf(k), showRatingKey |-> TopOf(MidOf(k)),
     mediaHash |-> EpisodeHash(k, leaf), sizeBytes |-> leaf.size, duration |-> leaf.duration]

(* process_album, the loop over the tracks: a track without media keeps    *)
(* track_size_bytes = 0, track_duration = 0 and track_container = None and *)
(* is appended like every other track.                                     *)
TrackHash(k, leaf) ==
    calculate_media_hash(IntStr(leaf.size), IntStr(leaf.duration), NoneStr, NoneStr,
                         IF leaf.kind = "media" THEN AudioContainer ELSE NoneStr,
                         Title("tracks", k), Year)

TrackRow(k, leaf) ==
    [available |-> 1, albumRatingKey |-> MidOf(k), artistRatingKey |-> TopOf(MidOf(k)),
     mediaHash |-> TrackHash(k, leaf), sizeBytes |-> leaf.size, duration |-> leaf.duration]

Entry(k, row) == [key |-> k, row |-> row]

(* "SELECT ratingKey, mediaHash FROM <tbl> WHERE available = 1" when not   *)
(* USE_PARALLEL, else the empty dict: the keys of existing_hashes.         *)
ExistingHashKeys(st, tbl, par) ==
    IF par THEN {} ELSE {k \in Keys(st, tbl) : st[tbl][k].available = 1}

(* the change-detection filter: the key is in existing hashes with the     *)
(* freshly computed hash                                                   *)
Unchanged(st, tbl, par, k, hash) ==
    k \in ExistingHashKeys(st, tbl, par) /\ st[tbl][k].mediaHash = hash

EmptySeen == [t \in Tables |-> {}]

(* What a pass leaves: the store and the committed store, how it ended,    *)
(* and its locals and log: the seen-key lists, the leaves skipped as       *)
(* unchanged, the thumbnails it tried to fetch, the rows of its batch      *)
(* lists (each a set of pairs <<table, key>>) and the number of rows it    *)
(* reported as marked unavailable.  failed_at names the table whose batch  *)
(* insert raised, "none" when none did; batch_commit holds the database    *)
(* as the conn.commit() that follows the batch inserts left it (a sequence *)
(* of one store, empty when the pass did not reach that commit).  log is   *)
(* the sequence of steps the pass took after its item loop, in the order   *)
(* it took them: the image downloads, each executemany, the commit and     *)
(* each mark_unavailable, the step that raised being the last one.         *)
PassResult(st, dur, outcome, seen, unchanged, fetched, batch, marked) ==
    [st |-> st, dur |-> dur, outcome |-> outcome, seen |-> seen,
     unchanged |-> unchanged, fetched |-> fetched, batch |-> batch, marked |-> marked,
     failed_at |-> "none", batch_commit |-> <<>>, log |-> <<>>]

(* the steps of the pass were `log' *)
Logged(r, log) == [r EXCEPT !.log = log]

(* the conn.commit() after the batch inserts made st durable *)
BatchCommitted(r, st) == [r EXCEPT !.batch_commit = <<st>>]

(* the pass left through an exception of cursor.executemany on table tbl *)
InsertRaised(r, tbl) == [r EXCEPT !.failed_at = tbl]

(* a pass that ends before it has collected anything *)
EarlyResult(st, dur, outcome, marked) ==
    PassResult(st, dur, outcome, EmptySeen, {}, {}, {}, marked)

(* a listing loop that goes on to `if not items:' after its last attempt *)
ListFailedAsEmpty(st, dur, fault, calls) ==
    LET r == Reconcile(st, dur, calls, 0)
    IN  Logged(EarlyResult(r.st, r.dur,
                           IF fault.kind = "transient" THEN "list_failed" ELSE "raised",
                           r.marked),
               MarkLog(st, calls))

(* `for attempt in range(max_retries): try: items = library.all(); break   *)
(* except (Timeout, ConnectionError): ... else: return': after the third   *)
(* timeout the pass returns before `if not items:' and its                 *)
(* mark_unavailable calls; any other exception leaves the pass.            *)
ListFailed(st, dur, fault, calls) ==
    EarlyResult(st, dur, IF fault.kind = "transient" THEN "list_failed" ELSE "raised", 0)

----------------------------------------------------------------------------
(* process_movies *)

(* the movies that pass the media / parts checks *)
MoviesWithMedia(src) == {k \in LeafKeys : src.leaves[k].kind = "media"}

(* the movies whose row is appended to movies_data *)
MoviesKept(st, par, src) ==
    {k \in MoviesWithMedia(src) :
        ~Unchanged(st, "movies", par, k, MovieHash(k, src.leaves[k]))}

(* seen_rating_keys if the append came after the filter's `continue' *)
MoviesSeenAfterFilter(st, par, src) == MoviesKept(st, par, src)

(* seen_rating_keys: appended before the change-detection filter *)
MoviesSeen(st, par, src) == MoviesWithMedia(src)

process_movies(st, dur, par, img, src, fault) ==
    IF fault.call = "list"
    THEN ListFailed(st, dur, fault, <<Call("movies", {})>>)
    ELSE IF \A k \in LeafKeys : src.leaves[k].kind = "absent"
    THEN LET r == Reconcile(st, dur, <<Call("movies", {})>>, 0)
         IN  Logged(EarlyResult(r.st, r.dur, "completed", r.marked),
                    MarkLog(st, <<Call("movies", {})>>))
    ELSE LET seen == [EmptySeen EXCEPT !["movies"] = MoviesSeen(st, par, src)]
             kept == MoviesKept(st, par, src)
             unchanged == {<<"movies", k>> : k \in MoviesWithMedia(src) \ kept}
             data == [i \in 1..Cardinality(kept) |->
                        LET k == SetToSeq(kept)[i] IN Entry(k, MovieRow(k, src.leaves[k]))]
             batch == {<<"movies", k>> : k \in kept}
             fetched == IF img THEN batch ELSE {}
             ins == BatchInsert(st, "movies", data)
             l1 == InsertLog("movies", data)
         IN  IF ~ins.ok
             THEN Logged(InsertRaised(PassResult(ins.st, dur, "raised", seen, unchanged,
                                                 fetched, batch, 0), "movies"),
                         PassLog(ImagesLog(fetched), l1, <<>>))
             ELSE LET committed == IF data = <<>> THEN dur ELSE ins.st
                      calls == <<Call("movies", seen["movies"])>>
                      r == Reconcile(ins.st, committed, calls, 0)
                      res == PassResult(r.st, r.dur, IF r.ok THEN "completed" ELSE "raised",
                                        seen, unchanged, fetched, batch, r.marked)
                      l2 == l1 \o (IF data = <<>> THEN <<>>
                                   ELSE <<Step("commit", "all"), Step("insert", "search_fts")>>)
                  IN  Logged(IF data = <<>> THEN res ELSE BatchCommitted(res, ins.st),
                             PassLog(ImagesLog(fetched), l2, MarkLog(ins.st, calls)))

----------------------------------------------------------------------------
(* process_tvshows, process_season, process_episode *)

(* show.seasons(), season.episodes() / artist.albums(), album.tracks() as  *)
(* the server holds them                                                   *)
MidsOf(src, top) == {m \in src.mids : TopOf(m) = top}
LeavesOf(src, mid) == {l \in LeafKeys : MidOf(l) = mid /\ src.leaves[l].kind # "absent"}

(* fetch_with_retry(fetch_func, ...): the items, [] after max_retries      *)
(* timeouts; any other exception is not caught and leaves the caller.      *)
fetch_with_retry(items, call, key, fault) ==
    IF fault.call = call /\ fault.key = key
    THEN [ok |-> fault.kind = "transient", items |-> {}]
    ELSE [ok |-> TRUE, items |-> items]

SeasonRow(m, count, total_duration, size_bytes) ==
    [available |-> 1, showRatingKey |-> TopOf(m), seasonTotalEpisode |-> count,
     avgSeasonEpisodeDuration |-> IF count > 0 THEN total_duration \div count ELSE 0,
     seasonSizeBytes |-> size_bytes]

(* avg_show_duration falls back to `show.duration or 0' when the show     *)
(* counted no episode; show_duration is that value.                        *)
ShowRow(s, tot, show_duration) ==
    [available |-> 1, showTotalEpisode |-> tot.episodes,
     avgEpisodeDuration |-> IF tot.episodes > 0 THEN tot.duration \div tot.episodes
                            ELSE show_duration,
     showSizeBytes |-> tot.size]

LeafSizes(src) == [l \in LeafKeys |-> src.leaves[l].size]
LeafDurations(src) == [l \in LeafKeys |-> src.leaves[l].duration]

EntriesOf(keys, rows) ==
    [i \in 1..Cardinality(keys) |-> Entry(SetToSeq(keys)[i], rows[SetToSeq(keys)[i]])]

(* The episodes process_season returns for season m: those process_episode *)
(* did not answer None for.                                                *)
SeasonEpisodes(src, m, fault) ==
    {e \in fetch_with_retry(LeavesOf(src, m), "leaves", m, fault).items :
        src.leaves[e].kind = "media"}

(* The filter of process_tvshows over season_result['episodes_data'] *)
FilteredEpisodes(c, m) ==
    {e \in SeasonEpisodes(c.src, m, c.fault) :
        ~Unchanged(c.st, "episodes", c.par, e, EpisodeHash(e, c.src.leaves[e]))}

(* The body of `for season in seasons_list' for one season m; acc is the   *)
(* pass's lists so far, tot the show's running totals.  ok = FALSE when    *)
(* season.episodes() raised, which ends the show's iteration.              *)
OneSeason(c, acc, tot, m) ==
    LET seen1 == [acc.seen EXCEPT !["seasons"] = @ \cup {m}]
        fetchOk == fetch_with_retry({}, "leaves", m, c.fault).ok
        eps == SeasonEpisodes(c.src, m, c.fault)
        filtered == FilteredEpisodes(c, m)
        counted == IF filtered # {} THEN filtered ELSE eps
        row == SeasonRow(m, Cardinality(counted), SumOver(counted, LeafDurations(c.src)),
                         SumOver(counted, LeafSizes(c.src)))
        (* process_episode downloads at once unless USE_PARALLEL and         *)
        (* DOWNLOAD_IMAGES, when the task is queued for the pool; the season *)
        (* thumbnail is fetched by process_season and queued again.           *)
        thumbs == IF c.img THEN {<<"episodes", e>> : e \in eps} \cup {<<"seasons", m>>} ELSE {}
    IN  IF ~fetchOk
        THEN [ok |-> FALSE, tot |-> tot, acc |-> [acc EXCEPT !.seen = seen1]]
        ELSE [ok |-> TRUE,
              tot |-> [episodes |-> tot.episodes + Cardinality(filtered),
                       duration |-> tot.duration + SumOver(filtered, LeafDurations(c.src)),
                       size |-> tot.size + SumOver(filtered, LeafSizes(c.src))],
              acc |-> [acc EXCEPT
                        !.seen = [seen1 EXCEPT !["episodes"] = @ \cup eps],
                        !.unchanged = @ \cup {<<"episodes", e>> : e \in eps \ filtered},
                        !.fetched = @ \cup thumbs,
                        !.mids_data = @ \o <<Entry(m, row)>>,
                        !.leaves_data = @ \o EntriesOf(filtered,
                                [e \in filtered |-> EpisodeRow(e, c.src.leaves[e])])]]

RECURSIVE SeasonsLoop(_, _, _, _)
SeasonsLoop(c, acc, tot, seasons) ==
    IF seasons = <<>> THEN [ok |-> TRUE, tot |-> tot, acc |-> acc]
    ELSE LET r == OneSeason(c, acc, tot, Head(seasons))
         IN  IF r.ok THEN SeasonsLoop(c, r.acc, r.tot, Tail(seasons)) ELSE r

ZeroTotals == [episodes |-> 0, duration |-> 0, size |-> 0]

(* The body of `for idx, show in enumerate(shows, 1)': an exception inside *)
(* is logged and the loop continues with what was appended before it.      *)
OneShow(c, acc, s) ==
    LET acc1 == [acc EXCEPT !.seen = [@ EXCEPT !["tv_shows"] = @ \cup {s}]]
        got == fetch_with_retry(MidsOf(c.src, s), "children", s, c.fault)
        r == SeasonsLoop(c, acc1, ZeroTotals, SetToSeq(got.items))
    IN  IF ~got.ok THEN acc1
        ELSE IF ~r.ok THEN r.acc
        ELSE [r.acc EXCEPT
                !.fetched = @ \cup (IF c.img THEN {<<"tv_shows", s>>} ELSE {}),
                !.tops_data = @ \o <<Entry(s, ShowRow(s, r.tot, c.src.top_duration))>>]

RECURSIVE ShowsLoop(_, _, _)
ShowsLoop(c, acc, shows) ==
    IF shows = <<>> THEN acc ELSE ShowsLoop(c, OneShow(c, acc, Head(shows)), Tail(shows))

EmptyAcc ==
    [seen |-> EmptySeen, unchanged |-> {}, fetched |-> {},
     tops_data |-> <<>>, mids_data |-> <<>>, leaves_data |-> <<>>]

(* The three batch inserts of a pass in parent-before-child order, the     *)
(* commit, and the three mark_unavailable calls.                           *)
(* a pass that inserts the children before their parents *)
InsertOrderChildFirst(top, mid, leaf) == <<leaf, mid, top>>

(* the order of the three `if ..._data: cursor.executemany(...)' blocks *)
InsertOrder(top, mid, leaf) == <<top, mid, leaf>>

PersistBatch(st, dur, acc, top, mid, leaf) ==
    LET order == InsertOrder(top, mid, leaf)
        data(tbl) == IF tbl = top THEN acc.tops_data
                     ELSE IF tbl = mid THEN acc.mids_data ELSE acc.leaves_data
        i1 == BatchInsert(st, order[1], data(order[1]))
        i2 == BatchInsert(i1.st, order[2], data(order[2]))
        i3 == BatchInsert(i2.st, order[3], data(order[3]))
        calls == <<Call(top, acc.seen[top]), Call(mid, acc.seen[mid]),
                   Call(leaf, acc.seen[leaf])>>
        r == Reconcile(i3.st, i3.st, calls, 0)
        batch == {<<top, acc.tops_data[i].key>> : i \in 1..Len(acc.tops_data)}
                   \cup {<<mid, acc.mids_data[i].key>> : i \in 1..Len(acc.mids_data)}
                   \cup {<<leaf, acc.leaves_data[i].key>> : i \in 1..Len(acc.leaves_data)}
        l1 == InsertLog(order[1], data(order[1]))
        l2 == l1 \o InsertLog(order[2], data(order[2]))
        l3 == l2 \o InsertLog(order[3], data(order[3]))
        raised(st1, tbl, log) ==
            Logged(InsertRaised(PassResult(st1, dur, "raised", acc.seen, acc.unchanged,
                                           acc.fetched, batch, 0), tbl),
                   PassLog(ImagesLog(acc.fetched), log, <<>>))
    IN  IF ~i1.ok THEN raised(i1.st, order[1], l1)
        ELSE IF ~i2.ok THEN raised(i2.st, order[2], l2)
        ELSE IF ~i3.ok THEN raised(i3.st, order[3], l3)
        ELSE Logged(BatchCommitted(PassResult(r.st, r.dur,
                                              IF r.ok THEN "completed" ELSE "raised",
                                              acc.seen, acc.unchanged, acc.fetched, batch,
                                              r.marked),
                                   i3.st),
                    PassLog(ImagesLog(acc.fetched), l3 \o <<Step("commit", "all")>>,
                            MarkLog(i3.st, calls)))

process_tvshows(st, dur, par, img, src, fault) ==
    IF fault.call = "list"
    THEN ListFailed(st, dur, fault,
                    <<Call("tv_shows", {}), Call("seasons", {}), Call("episodes", {})>>)
    ELSE IF src.tops = <<>>
    THEN LET calls == <<Call("tv_shows", {}), Call("seasons", {}), Call("episodes", {})>>
             r == Reconcile(st, dur, calls, 0)
         IN  Logged(EarlyResult(r.st, r.dur, "completed", r.marked), MarkLog(st, calls))
    ELSE LET c == [st |-> st, par |-> par, img |-> img, src |-> src, fault |-> fault]
             acc == ShowsLoop(c, EmptyAcc, src.tops)
         IN  PersistBatch(st, dur, acc, "tv_shows", "seasons", "episodes")

----------------------------------------------------------------------------
(* process_music, process_album *)

AlbumRow(al, tracks) ==
    [available |-> 1, artistRatingKey |-> TopOf(al), tracks |-> tracks.count,
     albumSizeBytes |-> tracks.size, albumDuration |-> tracks.duration]

ArtistRow(a, tot) ==
    [available |-> 1, totalAlbums |-> tot.albums, totalTracks |-> tot.tracks,
     totalSizeBytes |-> tot.size]

(* The filter of process_music over album_result['tracks_data'] *)
FilteredTracks(c, tracks) ==
    {t \in tracks : ~Unchanged(c.st, "tracks", c.par, t, TrackHash(t, c.src.leaves[t]))}

(* Python locals of process_music that outlive one iteration of the artist *)
(* loop: album / album_rating_key, album_size_bytes and filtered_tracks.   *)
(* Unbound is the state before their first assignment.                     *)
Unbound == [album |-> 0, bound |-> FALSE, size |-> 0, filtered |-> 0]

(* The body of `for album in albums_list or []' for one album; ok = FALSE  *)
(* when album.tracks() raised inside process_album.                        *)
OneAlbum(c, acc, loc, al) ==
    LET seen1 == [acc.seen EXCEPT !["albums"] = @ \cup {al}]
        loc1 == [loc EXCEPT !.album = al]
        got == fetch_with_retry(LeavesOf(c.src, al), "leaves", al, c.fault)
        tracks == got.items
        filtered == FilteredTracks(c, tracks)
        size == SumOver(tracks, LeafSizes(c.src))
        row == AlbumRow(al, [count |-> Cardinality(tracks), size |-> size,
                             duration |-> SumOver(tracks, LeafDurations(c.src))])
        (* process_album fetches the album thumbnail itself unless           *)
        (* USE_PARALLEL and DOWNLOAD_IMAGES                                   *)
        thumbs == IF c.img /\ ~c.par THEN {<<"albums", al>>} ELSE {}
    IN  IF ~got.ok
        THEN [ok |-> FALSE, loc |-> loc1,
              acc |-> [acc EXCEPT !.seen = seen1, !.fetched = @ \cup thumbs]]
        ELSE [ok |-> TRUE,
              loc |-> [album |-> al, bound |-> TRUE, size |-> size,
                       filtered |-> Cardinality(filtered)],
              acc |-> [acc EXCEPT
                        !.seen = [seen1 EXCEPT !["tracks"] = @ \cup tracks],
                        !.unchanged = @ \cup {<<"tracks", t>> : t \in tracks \ filtered},
                        !.fetched = @ \cup thumbs,
                        !.mids_data = @ \o <<Entry(al, row)>>,
                        !.leaves_data = @ \o EntriesOf(filtered,
                                [t \in filtered |-> TrackRow(t, c.src.leaves[t])])]]

RECURSIVE AlbumsLoop(_, _, _, _)
AlbumsLoop(c, acc, loc, albums) ==
    IF albums = <<>> THEN [ok |-> TRUE, loc |-> loc, acc |-> acc]
    ELSE LET r == OneAlbum(c, acc, loc, Head(albums))
         IN  IF r.ok THEN AlbumsLoop(c, r.acc, r.loc, Tail(albums)) ELSE r

(* The statements after the album loop (they are indented under the artist *)
(* loop, not the album loop): with DOWNLOAD_IMAGES one thumbnail task for  *)
(* whatever `album' currently names and the artist totals from the current *)
(* album_size_bytes / filtered_tracks; a name not yet assigned raises      *)
(* UnboundLocalError.  Result: [ok, fetched, tot].                         *)
AfterAlbums(img, loc) ==
    IF ~img THEN [ok |-> TRUE, fetched |-> {}, tot |-> [albums |-> 0, tracks |-> 0, size |-> 0]]
    ELSE IF loc.album = 0 THEN [ok |-> FALSE, fetched |-> {}, tot |-> [albums |-> 0, tracks |-> 0, size |-> 0]]
    ELSE IF ~loc.bound THEN [ok |-> FALSE, fetched |-> {<<"albums", loc.album>>},
                                tot |-> [albums |-> 0, tracks |-> 0, size |-> 0]]
    ELSE [ok |-> TRUE, fetched |-> {<<"albums", loc.album>>},
          tot |-> [albums |-> 1, tracks |-> loc.filtered, size |-> loc.size]]

(* The body of `for idx, artist in enumerate(artists, 1)'.  Result:        *)
(* [acc, loc].                                                             *)
OneArtist(c, acc, loc, a) ==
    LET acc1 == [acc EXCEPT
                    !.seen = [@ EXCEPT !["artists"] = @ \cup {a}],
                    !.fetched = @ \cup (IF c.img THEN {<<"artists", a>>} ELSE {})]
        got == fetch_with_retry(MidsOf(c.src, a), "children", a, c.fault)
        r == AlbumsLoop(c, acc1, loc, SetToSeq(got.items))
        after == AfterAlbums(c.img, r.loc)
        acc2 == [r.acc EXCEPT !.fetched = @ \cup after.fetched]
    IN  IF ~got.ok THEN [acc |-> acc1, loc |-> loc]
        ELSE IF ~r.ok THEN [acc |-> r.acc, loc |-> r.loc]
        ELSE IF ~after.ok THEN [acc |-> acc2, loc |-> r.loc]
        ELSE [acc |-> [acc2 EXCEPT !.tops_data = @ \o <<Entry(a, ArtistRow(a, after.tot))>>],
              loc |-> r.loc]

RECURSIVE ArtistsLoop(_, _, _, _)
ArtistsLoop(c, acc, loc, artists) ==
    IF artists = <<>> THEN acc
    ELSE LET r == OneArtist(c, acc, loc, Head(artists))
         IN  ArtistsLoop(c, r.acc, r.loc, Tail(artists))

process_music(st, dur, par, img, src, fault) ==
    IF fault.call = "list"
    THEN ListFailed(st, dur, fault,
                    <<Call("artists", {}), Call("albums", {}), Call("tracks", {})>>)
    ELSE IF src.tops = <<>>
    THEN LET calls == <<Call("artists", {}), Call("albums", {}), Call("tracks", {})>>
             r == Reconcile(st, dur, calls, 0)
         IN  Logged(EarlyResult(r.st, r.dur, "completed", r.marked), MarkLog(st, calls))
    ELSE LET c == [st |-> st, par |-> par, img |-> img, src |-> src, fault |-> fault]
             acc == ArtistsLoop(c, EmptyAcc, Unbound, src.tops)
         IN  PersistBatch(st, dur, acc, "artists", "albums", "tracks")

----------------------------------------------------------------------------
(* The inputs of a run *)

Libraries == {"Movies", "TV Shows", "Music"}

(* PLEX_LIBRARY_NAMES: the default list and the single-library lists *)
LibraryNameLists ==
    {<<"Movies">>, <<"TV Shows">>, <<"Music">>}

Injective(q) == \A i, j \in 1..Len(q) : i # j => q[i] # q[j]
Orders(S) == {q \in UNION {[1..n -> S] : n \in 0..Cardinality(S)} : Injective(q)}

WellFormed(src) ==
    /\ \A m \in src.mids : TopOf(m) \in Range(src.tops)
    /\ \A l \in LeafKeys : src.leaves[l].kind # "absent" => MidOf(l) \in src.mids

NoLeaves == [l \in LeafKeys |-> Absent]
NoSource == [tops |-> <<>>, mids |-> {}, leaves |-> NoLeaves, top_duration |-> 0]

MovieSources ==
    {[tops |-> <<>>, mids |-> {}, leaves |-> f, top_duration |-> 0] : f \in [LeafKeys -> LeafStates]}

TVSources ==
    {src \in [tops : {SetToSeq(T) : T \in SUBSET TopKeys}, mids : SUBSET MidKeys,
              leaves : [LeafKeys -> LeafStates], top_duration : ShowDurations] :
        WellFormed(src)}

MusicSources ==
    {src \in [tops : Orders(TopKeys), mids : SUBSET MidKeys,
              leaves : [LeafKeys -> LeafStates], top_duration : {0}] : WellFormed(src)}

ListFaults == {NoFault} \cup {Fault("list", 0, t) : t \in FaultKinds}

Faults(src) ==
    ListFaults
      \cup {Fault("children", k, t) : k \in Range(src.tops), t \in FaultKinds}
      \cup {Fault("leaves", m, t) : m \in src.mids, t \in FaultKinds}

----------------------------------------------------------------------------
(* The database file found at DB_PATH when the program is first started:   *)
(* none, or the file an earlier release left behind (the releases whose    *)
(* schema the migrations upgrade) holding one fully synced library.        *)

OldLeaf == Media(CHOOSE x \in Sizes : \A y \in Sizes : x <= y,
                 CHOOSE d \in Durations : \A y \in Durations : d <= y)
FullSource ==
    [tops |-> SetToSeq(TopKeys), mids |-> MidKeys, leaves |-> [l \in LeafKeys |-> OldLeaf],
     top_duration |-> 0]

TotalsOver(src, leaves) ==
    [episodes |-> Cardinality(leaves), duration |-> SumOver(leaves, LeafDurations(src)),
     size |-> SumOver(leaves, LeafSizes(src))]

LeavesUnder(src, top) == UNION {LeavesOf(src, m) : m \in MidsOf(src, top)}

LegacyStore(lib) ==
    LET src == FullSource
    IN  CASE lib = "Movies" ->
               [EmptyStore EXCEPT !["movies"] = [k \in LeafKeys |-> MovieRow(k, src.leaves[k])]]
          [] lib = "TV Shows" ->
               [EmptyStore EXCEPT
                  !["tv_shows"] = [s \in TopKeys |-> ShowRow(s, TotalsOver(src, LeavesUnder(src, s)), src.top_duration)],
                  !["seasons"] = [m \in MidKeys |->
                        SeasonRow(m, Cardinality(LeavesOf(src, m)),
                                  SumOver(LeavesOf(src, m), LeafDurations(src)),
                                  SumOver(LeavesOf(src, m), LeafSizes(src)))],
                  !["episodes"] = [e \in LeafKeys |-> EpisodeRow(e, src.leaves[e])]]
          [] lib = "Music" ->
               [EmptyStore EXCEPT
                  !["artists"] = [a \in TopKeys |->
                        ArtistRow(a, [albums |-> Cardinality(MidsOf(src, a)),
                                      tracks |-> Cardinality(LeavesUnder(src, a)),
                                      size |-> SumOver(LeavesUnder(src, a), LeafSizes(src))])],
                  !["albums"] = [al \in MidKeys |->
                        AlbumRow(al, [count |-> Cardinality(LeavesOf(src, al)),
                                      size |-> SumOver(LeavesOf(src, al), LeafSizes(src)),
                                      duration |-> SumOver(LeavesOf(src, al), LeafDurations(src))])],
                  !["tracks"] = [t \in LeafKeys |-> TrackRow(t, src.leaves[t])]]

(* The tables of a library, top level first *)
LibraryTables(lib) ==
    CASE lib = "Movies" -> <<"movies">>
      [] lib = "TV Shows" -> <<"tv_shows", "seasons", "episodes">>
      [] lib = "Music" -> <<"artists", "albums", "tracks">>

(* "UPDATE <table> SET available = 0, updatedAt = ? WHERE available = 1" on *)
(* every table: the store after the server reported its library empty.     *)
AllUnavailable(st) ==
    [t \in Tables |-> [k \in Keys(st, t) |-> [st[t][k] EXCEPT !.available = 0]]]

InitialStores ==
    {EmptyStore}
      \cup {LegacyStore(lib) : lib \in Libraries}
      \cup {AllUnavailable(LegacyStore(lib)) : lib \in Libraries}

----------------------------------------------------------------------------
(* The schema of the database file: init_database, run_migrations,         *)
(* get_schema_version, set_schema_version, and the full-text table.        *)
(*                                                                         *)
(* A schema records whether the entity tables and their indexes exist,     *)
(* which tables carry the mediaHash column and its index (migration 1),    *)
(* which carry the extended metadata columns (migration 2), the rows of    *)
(* schema_version, whether search_fts exists and the entries inserted in   *)
(* it, and whether the SQLite build has the fts5 module.  An entry carries *)
(* the rowid the table gave it: the INSERTs name no rowid, so each         *)
(* inserted row is a new entry with the next rowid.                        *)

SCHEMA_VERSION == 3

HashTables == {"movies", "episodes", "tracks"}
SearchTables == {"movies", "tv_shows", "artists"}

(* type_map of mark_unavailable, and the type literals of the INSERTs *)
type_map(table_name) ==
    CASE table_name = "movies" -> "movie"
      [] table_name = "tv_shows" -> "show"
      [] table_name = "artists" -> "artist"

NewFile(fts5) ==
    [fts5 |-> fts5, tables |-> FALSE, indexes |-> FALSE, hash_cols |-> {}, hash_idx |-> {},
     meta_cols |-> {}, versions |-> {}, fts_table |-> FALSE, fts_rows |-> {}]

(* "SELECT version FROM schema_version ORDER BY version DESC LIMIT 1", 0   *)
(* when the table is missing or empty                                      *)
get_schema_version(s) ==
    IF s.versions = {} THEN 0 ELSE CHOOSE v \in s.versions : \A w \in s.versions : w <= v

(* INSERT OR REPLACE INTO schema_version (version) VALUES (?) *)
set_schema_version(s, version) == [s EXCEPT !.versions = @ \cup {version}]

(* "INSERT ... INTO search_fts ... SELECT '<type>', ratingKey, ...,        *)
(* available FROM <table> WHERE available = 1"                             *)
SearchEntries(rows, st, table_name) ==
    LET keys == {x \in Keys(st, table_name) : st[table_name][x].available = 1}
        ids == {e.rowid : e \in rows}
        base == IF ids = {} THEN 0 ELSE CHOOSE i \in ids : \A j \in ids : j <= i
    IN  {[rowid |-> base + Cardinality({x \in keys : x <= k}),
          type |-> type_map(table_name), ratingKey |-> k, available |-> 1] : k \in keys}

(* The three population INSERTs in order movies, tv_shows, artists.  The   *)
(* SELECT names the summary column: on a table without the metadata        *)
(* columns the statement raises and the INSERTs after it are not run.      *)
PopulateSearch(s, st) ==
    LET m == "movies" \in s.meta_cols
        t == m /\ "tv_shows" \in s.meta_cols
        a == t /\ "artists" \in s.meta_cols
        r1 == s.fts_rows \cup (IF m THEN SearchEntries(s.fts_rows, st, "movies") ELSE {})
        r2 == r1 \cup (IF t THEN SearchEntries(r1, st, "tv_shows") ELSE {})
        r3 == r2 \cup (IF a THEN SearchEntries(r2, st, "artists") ELSE {})
    IN  [s EXCEPT !.fts_rows = r3]

(* CREATE VIRTUAL TABLE IF NOT EXISTS search_fts USING fts5(...): raises   *)
(* "no such module: fts5" on a build without the module                    *)
CreateSearchTable(s) == [s EXCEPT !.fts_table = TRUE]

(* a migration 1 that creates the index only when the column was there *)
AddHashColumnInverted(s, t) ==
    IF t \in s.hash_cols THEN [s EXCEPT !.hash_idx = @ \cup {t}]
    ELSE [s EXCEPT !.hash_cols = @ \cup {t}]

(* Migration 1: "ALTER TABLE t ADD COLUMN mediaHash" and, in the same try, *)
(* "CREATE INDEX IF NOT EXISTS idx_t_hash": a duplicate column error skips *)
(* the index.                                                              *)
AddHashColumn(s, t) ==
    IF t \in s.hash_cols THEN s
    ELSE [s EXCEPT !.hash_cols = @ \cup {t}, !.hash_idx = @ \cup {t}]

Migration1(s) ==
    set_schema_version(
        AddHashColumn(AddHashColumn(AddHashColumn(s, "movies"), "episodes"), "tracks"), 1)

(* Migration 2: ALTER TABLE ... ADD COLUMN for every metadata column,      *)
(* duplicate column errors ignored                                         *)
Migration2(s) == set_schema_version([s EXCEPT !.meta_cols = Tables], 2)

(* a migration 3 that records nothing when fts5 is missing *)
Migration3Unrecorded(s, st) ==
    IF s.fts5
    THEN set_schema_version(PopulateSearch(CreateSearchTable(s), st), 3)
    ELSE s

(* Migration 3: the search table and its population; without fts5 the      *)
(* error is logged and version 3 is recorded all the same.                 *)
Migration3(s, st) ==
    IF s.fts5
    THEN set_schema_version(PopulateSearch(CreateSearchTable(s), st), 3)
    ELSE set_schema_version(s, 3)

(* a gate that lets migration k through only from version 0 *)
GateFromZero(current_version, k) == current_version < 1

(* the gate `if current_version < k' of migration k *)
Gate(current_version, k) == current_version < k

(* run_migrations(conn, current_version, target_version), called on a     *)
(* file that has the entity tables.  Result: the schema and the migrations *)
(* applied, in order.                                                      *)
run_migrations(s, st, current_version, target_version) ==
    IF current_version >= target_version THEN [schema |-> s, applied |-> <<>>]
    ELSE LET g1 == Gate(current_version, 1)
             g2 == Gate(current_version, 2)
             g3 == Gate(current_version, 3)
             s1 == IF g1 THEN Migration1(s) ELSE s
             s2 == IF g2 THEN Migration2(s1) ELSE s1
             s3 == IF g3 THEN Migration3(s2, st) ELSE s2
         IN  [schema |-> s3,
              applied |-> (IF g1 THEN <<1>> ELSE <<>>) \o (IF g2 THEN <<2>> ELSE <<>>)
                            \o (IF g3 THEN <<3>> ELSE <<>>)]

(* init_database(db_path) without rebuild: CREATE TABLE IF NOT EXISTS with *)
(* the columns of this release, the indexes, the search table and its      *)
(* population inside try/except OperationalError, commit, run_migrations   *)
(* from the version read at the start.                                     *)
CreateTables(s) ==
    IF s.tables THEN [s EXCEPT !.indexes = TRUE]
    ELSE [s EXCEPT !.tables = TRUE, !.indexes = TRUE,
                   !.hash_cols = HashTables, !.meta_cols = Tables]

init_database(s, st) ==
    LET current_version == get_schema_version(s)
        s1 == CreateTables(s)
        s2 == IF s1.fts5 THEN PopulateSearch(CreateSearchTable(s1), st) ELSE s1
    IN  run_migrations(s2, st, current_version, SCHEMA_VERSION)

(* The try block at the end of mark_unavailable: "UPDATE search_fts SET    *)
(* available = 0 WHERE type = ? ..." for movies, tv_shows and artists.     *)
(* search_fts is declared content='' with content_rowid='ratingKey': it    *)
(* stores no column values, and SQLite answers an UPDATE (or a SELECT of   *)
(* its columns) with an OperationalError, as it does when the table is     *)
(* missing; `except sqlite3.OperationalError: pass' drops either one.      *)
update_search_fts(s, table_name, seen_keys) ==
    IF table_name \notin SearchTables THEN s
    ELSE IF ~s.fts_table THEN s
    ELSE s

(* The database files an earlier release left: the entity tables as the    *)
(* release before the migrations created them, or as a release with the    *)
(* columns of this one created them, followed by the first k migrations;   *)
(* and a file a later release has stamped with a higher version.           *)
Release0(fts5) == [NewFile(fts5) EXCEPT !.tables = TRUE, !.indexes = TRUE]

RECURSIVE MigratedTo(_, _, _)
MigratedTo(s, st, k) ==
    IF k = 0 THEN s
    ELSE LET p == MigratedTo(s, st, k - 1)
         IN  CASE k = 1 -> Migration1(p)
               [] k = 2 -> Migration2(p)
               [] k = 3 -> Migration3(p, st)

SchemaFiles(st) ==
    {NewFile(f) : f \in BOOLEAN}
      \cup {MigratedTo(Release0(f), st, k) : f \in BOOLEAN, k \in 0..SCHEMA_VERSION}
      \cup {MigratedTo(CreateTables(NewFile(f)), st, k) : f \in BOOLEAN, k \in 0..SCHEMA_VERSION}
      \cup {set_schema_version(MigratedTo(Release0(f), st, SCHEMA_VERSION), SCHEMA_VERSION + 1) :
                f \in BOOLEAN}

(* The file a store of entity rows is found in.  A new file holds no row;  *)
(* the rows of an earlier release are in a file that release created with  *)
(* the mediaHash columns and stamped with version 1.                       *)
SchemaOfStore(st, fts5) ==
    IF st = EmptyStore THEN NewFile(fts5)
    ELSE MigratedTo([CreateTables(NewFile(fts5)) EXCEPT !.meta_cols = {}], st, 1)

----------------------------------------------------------------------------
(* The state machine: main() *)

NoPass ==
    [lib |-> "none", outcome |-> "none", fault |-> NoFault, src |-> NoSource,
     par |-> TRUE, img |-> TRUE,
     seen |-> EmptySeen, unchanged |-> {}, fetched |-> {}, batch |-> {}, marked |-> 0,
     failed_at |-> "none", batch_commit |-> <<>>, log |-> <<>>]

Init ==
    /\ store \in InitialStores
    /\ durable = store
    /\ schema \in {SchemaOfStore(store, fts5) : fts5 \in BOOLEAN}
    /\ pc = "idle"
    /\ todo = <<>>
    /\ runs = 0
    /\ USE_PARALLEL = TRUE
    /\ DOWNLOAD_IMAGES = TRUE
    /\ last = NoPass

(* main() up to the library loop: the globals are set from the command     *)
(* line and a connection is opened on the committed database.              *)
Launch(fast, no_images, names) ==
    /\ pc = "idle"
    /\ runs' = runs + 1
    /\ pc' = "loop"
    /\ USE_PARALLEL' = fast
    /\ DOWNLOAD_IMAGES' = ~no_images
    /\ todo' = names
    /\ store' = durable
    /\ schema' = init_database(schema, durable).schema
    /\ UNCHANGED <<durable, last>>

StartRun(fast, no_images, names) ==
    /\ runs < MaxRuns
    /\ Launch(fast, no_images, names)

Record(lib, src, fault, r) ==
    [lib |-> lib, outcome |-> r.outcome, fault |-> fault, src |-> src,
     par |-> USE_PARALLEL, img |-> DOWNLOAD_IMAGES,
     seen |-> r.seen, unchanged |-> r.unchanged, fetched |-> r.fetched,
     batch |-> r.batch, marked |-> r.marked, failed_at |-> r.failed_at,
     batch_commit |-> r.batch_commit, log |-> r.log]

(* One iteration of `for library_name in LIBRARY_NAMES', up to the point   *)
(* where the pass returns or raises: `last' holds its locals.              *)
PassEnds(lib, src, fault, r) ==
    /\ pc = "loop"
    /\ todo # <<>>
    /\ Head(todo) = lib
    /\ pc' = "pass"
    /\ store' = r.st
    /\ durable' = r.dur
    /\ last' = Record(lib, src, fault, r)
    /\ schema' = update_search_fts(schema, LibraryTables(lib)[1], r.seen[LibraryTables(lib)[1]])
    /\ UNCHANGED <<todo, runs, USE_PARALLEL, DOWNLOAD_IMAGES>>

PassMovies ==
    \E src \in MovieSources, fault \in ListFaults :
        PassEnds("Movies", src, fault,
                 process_movies(store, durable, USE_PARALLEL, DOWNLOAD_IMAGES, src, fault))

PassTVShows ==
    \E src \in TVSources : \E fault \in Faults(src) :
        PassEnds("TV Shows", src, fault,
                 process_tvshows(store, durable, USE_PARALLEL, DOWNLOAD_IMAGES, src, fault))

PassMusic ==
    \E src \in MusicSources : \E fault \in Faults(src) :
        PassEnds("Music", src, fault,
                 process_music(store, durable, USE_PARALLEL, DOWNLOAD_IMAGES, src, fault))

(* The pass has returned, or its exception was logged by main's `except    *)
(* Exception ... continue': the loop goes on.                              *)
(* a loop without the except clause: a pass that raised ends the loop *)
EndPassUnwinds ==
    /\ pc = "pass"
    /\ pc' = "loop"
    /\ todo' = IF last.outcome = "raised" THEN <<>> ELSE Tail(todo)
    /\ UNCHANGED <<store, durable, schema, runs, USE_PARALLEL, DOWNLOAD_IMAGES>>

EndPass ==
    /\ pc = "pass"
    /\ pc' = "loop"
    /\ todo' = Tail(todo)
    /\ UNCHANGED <<store, durable, schema, runs, USE_PARALLEL, DOWNLOAD_IMAGES>>

(* ... and the locals of the pass are gone *)
Return ==
    /\ EndPass
    /\ last' = NoPass

(* After the loop: conn.close() drops whatever the connection had not      *)
(* committed, and the process ends; the next one starts with the module's  *)
(* defaults USE_PARALLEL = True, DOWNLOAD_IMAGES = True.                   *)
FinishRun ==
    /\ pc = "loop"
    /\ todo = <<>>
    /\ pc' = "idle"
    /\ store' = durable
    /\ USE_PARALLEL' = TRUE
    /\ DOWNLOAD_IMAGES' = TRUE
    /\ UNCHANGED <<durable, schema, todo, runs, last>>

Next ==
    \/ \E fast \in BOOLEAN, no_images \in BOOLEAN, names \in LibraryNameLists :
          StartRun(fast, no_images, names)
    \/ PassMovies
    \/ PassTVShows
    \/ PassMusic
    \/ Return
    \/ FinishRun

Spec == Init /\ [][Next]_vars

----------------------------------------------------------------------------
(* Consecutive runs over a source that does not change: the first pass     *)
(* takes any catalog, every later run is given the same library and the    *)
(* same catalog, and no call to the server fails.  `last' keeps the        *)
(* record of the previous pass, which is what the next one is compared to. *)

(* `if library_name == "Movies": ... elif "TV Shows": ... elif "Music": ...' *)
ProcessLibrary(lib, st, dur, par, img, src, fault) ==
    CASE lib = "Movies" -> process_movies(st, dur, par, img, src, fault)
      [] lib = "TV Shows" -> process_tvshows(st, dur, par, img, src, fault)
      [] lib = "Music" -> process_music(st, dur, par, img, src, fault)

Sources(lib) ==
    CASE lib = "Movies" -> MovieSources
      [] lib = "TV Shows" -> TVSources
      [] lib = "Music" -> MusicSources

RerunPass ==
    \E lib \in Libraries : \E src \in Sources(lib) :
        /\ last # NoPass => (lib = last.lib /\ src = last.src)
        /\ PassEnds(lib, src, NoFault,
                    ProcessLibrary(lib, store, durable, USE_PARALLEL, DOWNLOAD_IMAGES,
                                   src, NoFault))

ReturnKeep ==
    /\ EndPass
    /\ UNCHANGED last

StartRerun(fast, no_images, names) ==
    /\ runs < MaxReruns
    /\ last # NoPass => names = <<last.lib>>
    /\ Launch(fast, no_images, names)

NextRerun ==
    \/ \E fast \in BOOLEAN, no_images \in BOOLEAN, names \in LibraryNameLists :
          StartRerun(fast, no_images, names)
    \/ RerunPass
    \/ ReturnKeep
    \/ FinishRun

SpecRerun == Init /\ [][NextRerun]_vars

----------------------------------------------------------------------------
(* mark_unavailable on its own: any table, any list of seen keys, on a     *)
(* store whose rows are available or not, called the way every caller      *)
(* calls it (key_column left at its default).                              *)

LevelKeys(tbl) ==
    CASE tbl \in {"tv_shows", "artists"} -> TopKeys
      [] tbl \in {"seasons", "albums"} -> MidKeys
      [] OTHER -> LeafKeys

MarkStores ==
    {[t \in Tables |-> [k \in Keys(st, t) |-> [st[t][k] EXCEPT !.available = a[t][k]]]] :
        st \in {LegacyStore(lib) : lib \in Libraries},
        a \in [Tables -> [1..2 -> {0, 1}]]}

InitMark ==
    /\ store \in MarkStores
    /\ durable = store
    /\ schema \in {init_database(SchemaOfStore(store, fts5), store).schema : fts5 \in BOOLEAN}
    /\ pc = "idle"
    /\ todo = <<>>
    /\ runs = 0
    /\ USE_PARALLEL = TRUE
    /\ DOWNLOAD_IMAGES = TRUE
    /\ last = NoPass

(* One call; `last' records the table, the seen keys, whether the call     *)
(* returned ("completed") or raised, and the count it logged.              *)
Mark(table_name, seen_keys) ==
    /\ pc = "idle"
    /\ runs < MaxMarks
    /\ runs' = runs + 1
    /\ LET r == Reconcile(store, durable, <<Call(table_name, seen_keys)>>, 0)
       IN  /\ store' = r.st
           /\ durable' = r.dur
           /\ last' = [NoPass EXCEPT !.lib = table_name,
                                     !.outcome = IF r.ok THEN "completed" ELSE "raised",
                                     !.seen = [EmptySeen EXCEPT ![table_name] = seen_keys],
                                     !.marked = r.marked]
    /\ schema' = update_search_fts(schema, table_name, seen_keys)
    /\ UNCHANGED <<pc, todo, USE_PARALLEL, DOWNLOAD_IMAGES>>

NextMark ==
    \E table_name \in Tables : \E seen_keys \in SUBSET LevelKeys(table_name) :
        Mark(table_name, seen_keys)

SpecMark == InitMark /\ [][NextMark]_vars

----------------------------------------------------------------------------
(* The aggregation of process_tvshows on its own: the loop over the shows  *)
(* of a catalog, which builds shows_data and seasons_data, applied to a    *)
(* new database or to the one an earlier release left.  `last' records     *)
(* the rows the loop built, as <<table, key, row>>.                         *)
AggregateStores == {EmptyStore, LegacyStore("TV Shows")}

InitAggregate ==
    /\ store \in AggregateStores
    /\ durable = store
    /\ schema = init_database(SchemaOfStore(store, TRUE), store).schema
    /\ pc = "idle"
    /\ todo = <<>>
    /\ runs = 0
    /\ USE_PARALLEL \in BOOLEAN
    /\ DOWNLOAD_IMAGES = TRUE
    /\ last = NoPass

DataRows(tbl, data) == {<<tbl, data[i].key, data[i].row>> : i \in 1..Len(data)}

AggregateEnds(src, acc) ==
    /\ runs < MaxAggregates
    /\ runs' = runs + 1
    /\ last' = [NoPass EXCEPT !.lib = "TV Shows", !.outcome = "aggregated", !.src = src,
                              !.par = USE_PARALLEL, !.img = DOWNLOAD_IMAGES,
                              !.seen = acc.seen, !.unchanged = acc.unchanged,
                              !.batch = DataRows("tv_shows", acc.tops_data)
                                          \cup DataRows("seasons", acc.mids_data)]
    /\ UNCHANGED <<store, durable, schema, pc, todo, USE_PARALLEL, DOWNLOAD_IMAGES>>

Aggregate ==
    \E src \in TVSources :
        AggregateEnds(src, ShowsLoop([st |-> store, par |-> USE_PARALLEL,
                                      img |-> DOWNLOAD_IMAGES, src |-> src,
                                      fault |-> NoFault],
                                     EmptyAcc, src.tops))

NextAggregate == Aggregate

SpecAggregate == InitAggregate /\ [][NextAggregate]_vars

----------------------------------------------------------------------------
(* calculate_media_hash on its own.  A Python value that reaches it is an  *)
(* int (part.size or 0, duration or 0, year), None, or a str; the f-string *)
(* renders it with str().                                                  *)
PyInt(n) == [type |-> "int", int |-> n, str |-> <<>>]
PyStr(s) == [type |-> "str", int |-> 0, str |-> s]
PyNone == [type |-> "none", int |-> 0, str |-> <<>>]

Format(v) ==
    CASE v.type = "int" -> IntStr(v.int)
      [] v.type = "none" -> NoneStr
      [] v.type = "str" -> v.str

media_hash_of(x) ==
    calculate_media_hash(Format(x.size_bytes), Format(x.duration), Format(x.codec),
                         Format(x.resolution), Format(x.container), Format(x.title),
                         Format(x.year))

(* The values the callers pass: format_codec upper-cases, format_resolution *)
(* lower-cases and appends "p" to digits, the container and the title are  *)
(* the server's strings, the year is an int or None.                       *)
HashFields == {"size_bytes", "duration", "codec", "resolution", "container", "title", "year"}

HashInputs ==
    [size_bytes : {PyInt(1), PyInt(12)},
     duration : {PyInt(3), PyInt(23)},
     codec : {PyNone, PyStr(VideoCodec)},
     resolution : {PyNone, PyStr(VideoResolution)},
     container : {PyNone, PyStr(VideoContainer)},
     title : {PyStr(<<"t">>), PyStr(<<"t", "|", "3">>)},
     year : {PyNone, PyInt(2000)}]

InitHash ==
    /\ store = EmptyStore
    /\ durable = EmptyStore
    /\ schema = init_database(NewFile(TRUE), EmptyStore).schema
    /\ pc = "idle"
    /\ todo = <<>>
    /\ runs = 0
    /\ USE_PARALLEL = TRUE
    /\ DOWNLOAD_IMAGES = TRUE
    /\ last = NoPass

(* Two calls; `last' records the arguments and the digests. *)
Hash(x, y) ==
    /\ runs < MaxHashes
    /\ runs' = runs + 1
    /\ last' = [lib |-> "none", outcome |-> "hashed", x |-> x, y |-> y,
                hash_x |-> media_hash_of(x), hash_y |-> media_hash_of(y)]
    /\ UNCHANGED <<store, durable, schema, pc, todo, USE_PARALLEL, DOWNLOAD_IMAGES>>

NextHash == \E x \in HashInputs, y \in HashInputs : Hash(x, y)

SpecHash == InitHash /\ [][NextHash]_vars

----------------------------------------------------------------------------
(* init_database and run_migrations on their own, on the files an earlier  *)
(* release, this release or a later one left.  run_migrations is given the *)
(* stored version (as init_database gives it) or a lower one: a run of     *)
(* migrations over a file that already has them.  `last' records the       *)
(* version given, the schema before, and the migrations applied.           *)
SchemaStores == {EmptyStore, LegacyStore("Movies"), LegacyStore("Music")}

InitSchema ==
    /\ store \in SchemaStores
    /\ durable = store
    /\ schema \in IF store = EmptyStore THEN SchemaFiles(store)
                  ELSE SchemaFiles(store) \ {NewFile(f) : f \in BOOLEAN}
    /\ pc = "idle"
    /\ todo = <<>>
    /\ runs = 0
    /\ USE_PARALLEL = TRUE
    /\ DOWNLOAD_IMAGES = TRUE
    /\ last = NoPass

SchemaStep(outcome, current_version, r) ==
    /\ runs < MaxSchemaRuns
    /\ runs' = runs + 1
    /\ schema' = r.schema
    /\ last' = [lib |-> "none", outcome |-> outcome, current_version |-> current_version,
                before |-> schema, applied |-> r.applied]
    /\ UNCHANGED <<store, durable, pc, todo, USE_PARALLEL, DOWNLOAD_IMAGES>>

InitDatabase ==
    SchemaStep("initialized", get_schema_version(schema), init_database(schema, durable))

RunMigrations(current_version) ==
    /\ schema.tables
    /\ current_version <= get_schema_version(schema)
    /\ SchemaStep("migrated", current_version,
                  run_migrations(schema, durable, current_version, SCHEMA_VERSION))

NextSchema ==
    \/ InitDatabase
    \/ \E current_version \in 0..(SCHEMA_VERSION + 1) : RunMigrations(current_version)

SpecSchema == InitSchema /\ [][NextSchema]_vars

----------------------------------------------------------------------------
(* main() with PLEX_LIBRARY_NAMES naming two libraries: both passes run on *)
(* the one connection main() opened, and a pass that raised is logged and  *)
(* skipped (`except Exception ... continue').  The catalogs of this        *)
(* specification hold leaves of one size and shows without a length, and   *)
(* the one call that may fail is a fetch of the children of a season or    *)
(* an album.                                                               *)

LibraryPairs == {q \in [1..2 -> Libraries] : q[1] # q[2]}

LoopStores == {EmptyStore, LegacyStore("Movies")}

LoopSources(lib) ==
    {src \in Sources(lib) :
        /\ src.top_duration = 0
        /\ \A l \in LeafKeys : src.leaves[l] \in {Absent, OldLeaf}}

LoopFaults(lib, src) ==
    IF lib = "Movies" THEN {NoFault}
    ELSE {NoFault} \cup {Fault("leaves", m, "permanent") : m \in src.mids}

InitLoop ==
    /\ store \in LoopStores
    /\ durable = store
    /\ schema = SchemaOfStore(store, TRUE)
    /\ pc = "idle"
    /\ todo = <<>>
    /\ runs = 0
    /\ USE_PARALLEL = TRUE
    /\ DOWNLOAD_IMAGES = TRUE
    /\ last = NoPass

LoopPass ==
    \E lib \in Libraries : \E src \in LoopSources(lib) : \E fault \in LoopFaults(lib, src) :
        PassEnds(lib, src, fault,
                 ProcessLibrary(lib, store, durable, USE_PARALLEL, DOWNLOAD_IMAGES, src, fault))

(* The pass has returned or raised and the loop goes on.  The locals of a  *)
(* pass that returned are gone; the record of a pass whose batch insert    *)
(* raised is kept until the next pass ends.                                *)
ReturnLoop ==
    /\ EndPass
    /\ last' = IF last.failed_at = "none" THEN NoPass ELSE last

NextLoop ==
    \/ \E fast \in BOOLEAN, no_images \in BOOLEAN, names \in LibraryPairs :
          StartRun(fast, no_images, names)
    \/ LoopPass
    \/ ReturnLoop
    \/ FinishRun

SpecLoop == InitLoop /\ [][NextLoop]_vars

----------------------------------------------------------------------------
(* Thumbnails: download_and_convert_image, download_images_parallel and    *)
(* the sequential download loops, between the item loop of a pass and its  *)
(* batch inserts.                                                          *)
(*                                                                         *)
(* What one attempt at a thumbnail meets: the item has no thumb, the       *)
(* request answers 200 with an image ("ok"), answers another status, times *)
(* out (requests.exceptions.Timeout), or anything else raises ("error": a  *)
(* refused connection, bytes that are no image, a path that cannot be      *)
(* written).  A thumbnail behaves as a sequence of such outcomes, one for  *)
(* each attempt that may be made.                                          *)

AttemptOutcomes == {"ok", "no_thumb", "status", "timeout", "error"}

Always(o) == [i \in 1..max_retries |-> o]
Then(o, rest) == [i \in 1..max_retries |-> IF i = 1 THEN o ELSE rest]

Behaviours ==
    {Always(o) : o \in AttemptOutcomes}
      \cup {Then("timeout", "ok")}

(* One call: `for attempt in range(max_retries)'.  A status other than 200 *)
(* falls out of the try block and the loop goes on at once; Timeout and    *)
(* `except Exception' sleep and `continue' unless it was the last attempt. *)
(* Result: [ok, requests, raised], requests counting the requests.get      *)
(* calls made.                                                             *)
RECURSIVE Attempt(_, _, _)
Attempt(b, attempt, requests) ==
    IF attempt > max_retries THEN [ok |-> FALSE, requests |-> requests, raised |-> FALSE]
    ELSE CASE b[attempt] = "no_thumb" -> [ok |-> FALSE, requests |-> requests, raised |-> FALSE]
           [] b[attempt] = "ok" -> [ok |-> TRUE, requests |-> requests + 1, raised |-> FALSE]
           [] OTHER -> Attempt(b, attempt + 1, requests + 1)

(* a download that lets the exception of its first attempt go *)
download_and_convert_image_raising(b) ==
    IF b[1] \in {"timeout", "error"}
    THEN [ok |-> FALSE, requests |-> 1, raised |-> TRUE]
    ELSE Attempt(b, 1, 0)

download_and_convert_image(b) == Attempt(b, 1, 0)

NoDownloads == [downloaded |-> 0, failed |-> 0, calls |-> <<>>, raised |-> FALSE]

(* download_images_parallel: every task is submitted; a worker's exception *)
(* is caught at future.result() and counted as failed.                     *)
RECURSIVE download_images_parallel(_, _, _)
download_images_parallel(image_tasks, behaviour, acc) ==
    IF image_tasks = <<>> THEN acc
    ELSE LET t == Head(image_tasks)
             d == download_and_convert_image(behaviour[t])
         IN  download_images_parallel(Tail(image_tasks), behaviour,
                [acc EXCEPT !.downloaded = @ + (IF d.ok THEN 1 ELSE 0),
                            !.failed = @ + (IF d.ok THEN 0 ELSE 1),
                            !.calls = Append(@, [task |-> t, ok |-> d.ok, requests |-> d.requests])])

(* `for item, image_path, plex_server in image_tasks: if                   *)
(* download_and_convert_image(...): downloaded += 1 else: failed += 1': an *)
(* exception of the call would leave the loop and the pass.                *)
RECURSIVE DownloadSequential(_, _, _)
DownloadSequential(image_tasks, behaviour, acc) ==
    IF image_tasks = <<>> THEN acc
    ELSE LET t == Head(image_tasks)
             d == download_and_convert_image(behaviour[t])
             acc1 == [acc EXCEPT !.calls = Append(@, [task |-> t, ok |-> d.ok, requests |-> d.requests])]
         IN  IF d.raised THEN [acc1 EXCEPT !.raised = TRUE]
             ELSE DownloadSequential(Tail(image_tasks), behaviour,
                     [acc1 EXCEPT !.downloaded = @ + (IF d.ok THEN 1 ELSE 0),
                                  !.failed = @ + (IF d.ok THEN 0 ELSE 1)])

(* `if DOWNLOAD_IMAGES: if USE_PARALLEL: ... else: ...' *)
DownloadImages(par, image_tasks, behaviour) ==
    IF par THEN download_images_parallel(image_tasks, behaviour, NoDownloads)
    ELSE DownloadSequential(image_tasks, behaviour, NoDownloads)

(* artist_image_tasks + album_image_tasks of a Music pass, from the        *)
(* thumbnails it asked for                                                 *)
ImageTasks(fetched) ==
    LET keys(tbl) == SetToSeq({t[2] : t \in {x \in fetched : x[1] = tbl}})
        tasks(tbl) == [i \in 1..Len(keys(tbl)) |-> <<tbl, keys(tbl)[i]>>]
    IN  tasks("artists") \o tasks("albums")

(* A Music pass with thumbnails enabled, in either mode, in which no call  *)
(* for metadata fails and every thumbnail behaves in any of the ways       *)
(* above.  The downloads come after the artist loop and before the batch   *)
(* inserts: an exception leaving them would end the pass there.            *)
ImageStores == {EmptyStore, LegacyStore("Music")}

InitImages ==
    /\ store \in ImageStores
    /\ durable = store
    /\ schema = init_database(SchemaOfStore(store, TRUE), store).schema
    /\ pc = "idle"
    /\ todo = <<>>
    /\ runs = 0
    /\ USE_PARALLEL \in BOOLEAN
    /\ DOWNLOAD_IMAGES = TRUE
    /\ last = NoPass

Thumbnails(src) ==
    {<<"artists", a>> : a \in Range(src.tops)} \cup {<<"albums", al>> : al \in src.mids}

(* the catalogs of this specification hold artists and albums, no tracks *)
ImageSources == {src \in MusicSources : src.leaves = NoLeaves}

ImagesRecord(src, behaviour, r, dl) ==
    [lib |-> "Music", outcome |-> IF dl.raised THEN "raised" ELSE r.outcome,
     src |-> src, par |-> USE_PARALLEL, seen |-> r.seen, batch |-> r.batch,
     failed_at |-> r.failed_at, image_tasks |-> ImageTasks(r.fetched),
     behaviour |-> behaviour, downloaded |-> dl.downloaded,
     failed |-> dl.failed, calls |-> dl.calls]

ImagesEnd(src, behaviour, r) ==
    /\ runs < MaxImagePasses
    /\ runs' = runs + 1
    /\ LET dl == DownloadImages(USE_PARALLEL, ImageTasks(r.fetched), behaviour)
       IN  /\ store' = IF dl.raised THEN store ELSE r.st
           /\ durable' = IF dl.raised THEN durable ELSE r.dur
           /\ last' = ImagesRecord(src, behaviour, r, dl)
    /\ UNCHANGED <<schema, pc, todo, USE_PARALLEL, DOWNLOAD_IMAGES>>

ImagePass ==
    \E src \in ImageSources : \E behaviour \in [Thumbnails(src) -> Behaviours] :
        ImagesEnd(src, behaviour,
                  process_music(store, durable, USE_PARALLEL, DOWNLOAD_IMAGES, src, NoFault))

NextImages == ImagePass

SpecImages == InitImages /\ [][NextImages]_vars

----------------------------------------------------------------------------
(* main() from its first line: the environment may lack PLEX_URL or        *)
(* PLEX_TOKEN, and PlexServer(...) may raise because the server cannot be  *)
(* reached.  `last' records how main() returned, and in which run.         *)

(* `if not PLEX_URL or not PLEX_TOKEN: return 1' comes before              *)
(* init_database; `except Exception: ... return 1' around PlexServer(...)  *)
(* comes after it.  No connection to the database is opened.               *)
(* init_database(DB_PATH, rebuild=args.rebuild_db) removes the file first  *)
(* under --rebuild-db: `if rebuild and os.path.exists(db_path):            *)
(* os.remove(db_path)', and goes on with a new, empty file.                *)
AbortRecord(url, token, reachable, rebuild) ==
    [lib |-> "none", outcome |-> "returned", exit_code |-> 1, run |-> runs + 1,
     url |-> url, token |-> token, reachable |-> reachable, rebuild |-> rebuild,
     before |-> durable]

AbortRunContinues(url, token, reachable, rebuild) ==
    /\ pc = "idle"
    /\ runs < MaxRuns
    /\ ~(url /\ token) \/ ~reachable
    /\ runs' = runs + 1
    /\ schema' = init_database(schema, durable).schema
    /\ last' = AbortRecord(url, token, reachable, rebuild)
    /\ pc' = "loop"
    /\ todo' = <<"Movies">>
    /\ UNCHANGED <<store, durable, USE_PARALLEL, DOWNLOAD_IMAGES>>

(* a main() that connects to the server before it touches the database *)
AbortRunBeforeInit(url, token, reachable, rebuild) ==
    /\ pc = "idle"
    /\ runs < MaxRuns
    /\ ~(url /\ token) \/ ~reachable
    /\ runs' = runs + 1
    /\ last' = AbortRecord(url, token, reachable, rebuild)
    /\ UNCHANGED <<store, durable, schema, pc, todo, USE_PARALLEL, DOWNLOAD_IMAGES>>

AbortRun(url, token, reachable, rebuild) ==
    /\ pc = "idle"
    /\ runs < MaxRuns
    /\ ~(url /\ token) \/ ~reachable
    /\ runs' = runs + 1
    /\ IF ~(url /\ token)
       THEN UNCHANGED <<store, durable, schema>>
       ELSE IF rebuild
       THEN /\ store' = EmptyStore
            /\ durable' = EmptyStore
            /\ schema' = init_database(NewFile(schema.fts5), EmptyStore).schema
       ELSE /\ schema' = init_database(schema, durable).schema
            /\ UNCHANGED <<store, durable>>
    /\ last' = AbortRecord(url, token, reachable, rebuild)
    /\ UNCHANGED <<pc, todo, USE_PARALLEL, DOWNLOAD_IMAGES>>

NextMain ==
    \/ \E url \in BOOLEAN, token \in BOOLEAN, reachable \in BOOLEAN, rebuild \in BOOLEAN :
          AbortRun(url, token, reachable, rebuild)
    \/ \E fast \in BOOLEAN, no_images \in BOOLEAN, names \in LibraryNameLists :
          StartRun(fast, no_images, names)
    \/ LoopPass
    \/ Return
    \/ FinishRun

SpecMain == InitLoop /\ [][NextMain]_vars

----------------------------------------------------------------------------
(* init_database cut short inside a migration: a statement of migration    *)
(* `step' raises an OperationalError that is not "duplicate column" (and   *)
(* not about fts5), which run_migrations lets through, or the process ends *)
(* there.  ALTER TABLE, CREATE INDEX and CREATE VIRTUAL TABLE are not run  *)
(* inside a transaction, so what ran before the error stays in the file;   *)
(* the INSERTs of migration 3 are, and are lost with the connection.       *)
(* `done' counts the tables the step had finished; `half' says that the    *)
(* ALTER TABLE of the next table of migration 1 had run and its CREATE     *)
(* INDEX had not.                                                          *)
HashOrder == <<"movies", "episodes", "tracks">>
MetaOrder == <<"movies", "tv_shows", "seasons", "episodes", "artists", "albums", "tracks">>

AbortPoints ==
    [step : {1}, done : 0..Len(HashOrder), half : {FALSE}]
      \cup [step : {1}, done : 0..(Len(HashOrder) - 1), half : {TRUE}]
      \cup [step : {2}, done : 0..Len(MetaOrder), half : {FALSE}]
      \cup [step : {3}, done : 0..1, half : {FALSE}]

RECURSIVE AddHashColumns(_, _)
AddHashColumns(s, order) ==
    IF order = <<>> THEN s
    ELSE AddHashColumns(AddHashColumn(s, Head(order)), Tail(order))

Migration1Aborted(s, at) ==
    LET s1 == AddHashColumns(s, SubSeq(HashOrder, 1, at.done))
    IN  IF at.half THEN [s1 EXCEPT !.hash_cols = @ \cup {HashOrder[at.done + 1]}] ELSE s1

Migration2Aborted(s, at) ==
    [s EXCEPT !.meta_cols = @ \cup {MetaOrder[i] : i \in 1..at.done}]

Migration3Aborted(s, at) ==
    IF s.fts5 /\ at.done = 1 THEN CreateSearchTable(s) ELSE s

(* the error can be raised at `at' when the run reaches that statement *)
CanAbort(s, current_version, at) ==
    /\ current_version < SCHEMA_VERSION
    /\ Gate(current_version, at.step)
    /\ at.half => HashOrder[at.done + 1] \notin AddHashColumns(s, SubSeq(HashOrder, 1, at.done)).hash_cols
    /\ (at.step = 3 /\ at.done = 1) => s.fts5

run_migrations_aborted(s, st, current_version, at) ==
    LET g1 == Gate(current_version, 1)
        g2 == Gate(current_version, 2)
        s1 == IF at.step = 1 THEN Migration1Aborted(s, at)
              ELSE IF g1 THEN Migration1(s) ELSE s
        s2 == IF at.step = 1 THEN s1
              ELSE IF at.step = 2 THEN Migration2Aborted(s1, at)
              ELSE IF g2 THEN Migration2(s1) ELSE s1
        s3 == IF at.step = 3 THEN Migration3Aborted(s2, at) ELSE s2
    IN  [schema |-> s3,
         applied |-> (IF g1 /\ at.step > 1 THEN <<1>> ELSE <<>>)
                       \o (IF g2 /\ at.step > 2 THEN <<2>> ELSE <<>>)]

(* the part of init_database before run_migrations *)
InitBody(s, st) ==
    LET s1 == CreateTables(s)
    IN  IF s1.fts5 THEN PopulateSearch(CreateSearchTable(s1), st) ELSE s1

InterruptedInit(at) ==
    /\ runs = 0
    /\ CanAbort(InitBody(schema, durable), get_schema_version(schema), at)
    /\ runs' = runs + 1
    /\ schema' = run_migrations_aborted(InitBody(schema, durable), durable,
                                        get_schema_version(schema), at).schema
    /\ last' = [lib |-> "none", outcome |-> "aborted", at |-> at,
                current_version |-> get_schema_version(schema), before |-> schema]
    /\ UNCHANGED <<store, durable, pc, todo, USE_PARALLEL, DOWNLOAD_IMAGES>>

(* the next start of the program: init_database on the file as it is *)
Reinitialize ==
    /\ last.outcome = "aborted"
    /\ runs < MaxSchemaRuns
    /\ runs' = runs + 1
    /\ schema' = init_database(schema, durable).schema
    /\ last' = [lib |-> "none", outcome |-> "reinitialized", at |-> last.at,
                current_version |-> get_schema_version(schema), before |-> last.before]
    /\ UNCHANGED <<store, durable, pc, todo, USE_PARALLEL, DOWNLOAD_IMAGES>>

NextInterrupt ==
    \/ \E at \in AbortPoints : InterruptedInit(at)
    \/ Reinitialize

SpecInterrupt == InitSchema /\ [][NextInterrupt]_vars

----------------------------------------------------------------------------
(* The download stage of a pass, step by step: `if DOWNLOAD_IMAGES and     *)
(* image_tasks:' runs download_images_parallel under USE_PARALLEL and the  *)
(* loop over image_tasks otherwise.  The tasks are told apart only by how  *)
(* their worker ends: download_and_convert_image returns True ("ok") or    *)
(* False ("failed"), or the worker raises ("raised").  `last' holds the    *)
(* stage: the tasks not yet submitted, those waiting in the executor's     *)
(* queue, those a worker thread is running, the futures completed and not  *)
(* yet yielded by as_completed, and the two counters.                      *)

max_workers == 10

WorkerEnds == {"ok", "failed", "raised"}

NoneOf == [e \in WorkerEnds |-> 0]

Total(f) == f["ok"] + f["failed"] + f["raised"]

(* the task mixes a stage may be given; the sequential loop calls          *)
(* download_and_convert_image itself, which catches what it meets          *)
TaskMixes(par) ==
    {m \in [WorkerEnds -> 0..MaxTasks] :
        /\ Total(m) \in 1..MaxTasks
        /\ m["failed"] <= MaxFailing
        /\ m["raised"] <= (IF par THEN MaxRaising ELSE 0)}

InitPool ==
    /\ store = EmptyStore
    /\ durable = store
    /\ schema = init_database(SchemaOfStore(store, TRUE), store).schema
    /\ pc = "idle"
    /\ todo = <<>>
    /\ runs = 0
    /\ USE_PARALLEL \in BOOLEAN
    /\ DOWNLOAD_IMAGES = TRUE
    /\ last = NoPass

PoolStep == UNCHANGED <<store, durable, schema, todo, runs, USE_PARALLEL, DOWNLOAD_IMAGES>>

(* entering the stage with a non-empty image_tasks *)
BeginDownloads(mix) ==
    /\ pc = "idle"
    /\ pc' = IF USE_PARALLEL THEN "submit" ELSE "sequential"
    /\ last' = [par |-> USE_PARALLEL, given |-> mix, tasks |-> Total(mix),
                unsubmitted |-> Total(mix),
                queued |-> 0, running |-> 0, left |-> mix, done |-> NoneOf,
                downloaded |-> 0, failed |-> 0]
    /\ PoolStep

(* `executor.submit(download_image_worker, task) for task in image_tasks' *)
Submit ==
    /\ pc = "submit"
    /\ last.unsubmitted > 0
    /\ last' = [last EXCEPT !.unsubmitted = @ - 1, !.queued = @ + 1]
    /\ pc' = IF last.unsubmitted = 1 THEN "as_completed" ELSE pc
    /\ PoolStep

(* a pool that starts a thread for every queued task *)
WorkerTakesUnbounded ==
    /\ pc \in {"submit", "as_completed"}
    /\ last.queued > 0
    /\ last' = [last EXCEPT !.queued = @ - 1, !.running = @ + 1]
    /\ UNCHANGED pc
    /\ PoolStep

(* ThreadPoolExecutor(max_workers=max_workers): a queued task starts when  *)
(* one of the at most max_workers threads is free                          *)
WorkerTakes ==
    /\ pc \in {"submit", "as_completed"}
    /\ last.queued > 0
    /\ last.running < max_workers
    /\ last' = [last EXCEPT !.queued = @ - 1, !.running = @ + 1]
    /\ UNCHANGED pc
    /\ PoolStep

(* download_image_worker returns or raises, in any order among the         *)
(* running tasks                                                           *)
WorkerFinishes(e) ==
    /\ pc \in {"submit", "as_completed"}
    /\ last.running > 0
    /\ last.left[e] > 0
    /\ last' = [last EXCEPT !.running = @ - 1, !.left[e] = @ - 1, !.done[e] = @ + 1]
    /\ UNCHANGED pc
    /\ PoolStep

(* a loop body that counts a raising worker in neither counter *)
CountResultDroppingRaised(e) ==
    /\ pc = "as_completed"
    /\ last.done[e] > 0
    /\ last' = [last EXCEPT !.done[e] = @ - 1,
                            !.downloaded = @ + (IF e = "ok" THEN 1 ELSE 0),
                            !.failed = @ + (IF e = "failed" THEN 1 ELSE 0)]
    /\ UNCHANGED pc
    /\ PoolStep

(* `for future in as_completed(future_to_task):' with the try / except     *)
(* around future.result()                                                  *)
CountResult(e) ==
    /\ pc = "as_completed"
    /\ last.done[e] > 0
    /\ last' = [last EXCEPT !.done[e] = @ - 1,
                            !.downloaded = @ + (IF e = "ok" THEN 1 ELSE 0),
                            !.failed = @ + (IF e = "ok" THEN 0 ELSE 1)]
    /\ UNCHANGED pc
    /\ PoolStep

(* the sequential loop: the call of download_and_convert_image begins ...  *)
SequentialCall ==
    /\ pc = "sequential"
    /\ last.running = 0
    /\ last.unsubmitted > 0
    /\ last' = [last EXCEPT !.unsubmitted = @ - 1, !.running = @ + 1]
    /\ UNCHANGED pc
    /\ PoolStep

(* ... and returns, and the loop body counts it *)
SequentialReturn(e) ==
    /\ pc = "sequential"
    /\ last.running > 0
    /\ last.left[e] > 0
    /\ last' = [last EXCEPT !.running = @ - 1, !.left[e] = @ - 1,
                            !.downloaded = @ + (IF e = "ok" THEN 1 ELSE 0),
                            !.failed = @ + (IF e = "ok" THEN 0 ELSE 1)]
    /\ UNCHANGED pc
    /\ PoolStep

(* `return {'downloaded': downloaded, 'failed': failed}' once as_completed *)
(* is exhausted and the `with' block has joined the workers; the end of    *)
(* the sequential loop                                                     *)
DownloadsReturn ==
    /\ \/ pc = "as_completed" /\ last.queued = 0 /\ last.running = 0 /\ Total(last.done) = 0
       \/ pc = "sequential" /\ last.unsubmitted = 0 /\ last.running = 0
    /\ pc' = "downloaded"
    /\ UNCHANGED last
    /\ PoolStep

NextPool ==
    \/ \E mix \in TaskMixes(USE_PARALLEL) : BeginDownloads(mix)
    \/ Submit
    \/ WorkerTakes
    \/ \E e \in WorkerEnds : WorkerFinishes(e)
    \/ \E e \in WorkerEnds : CountResult(e)
    \/ SequentialCall
    \/ \E e \in WorkerEnds : SequentialReturn(e)
    \/ DownloadsReturn

SpecPool == InitPool /\ [][NextPool]_vars

----------------------------------------------------------------------------
(* fetch_with_retry, attempt by attempt.  What one call of fetch_func      *)
(* meets: it returns ("ok"), raises requests.exceptions.Timeout or         *)
(* ConnectionError, or raises anything else ("other"), which the except    *)
(* clause does not catch.  `last' holds the call: the attempts made, the   *)
(* time.sleep arguments in order, and how it ended ("value": fetch_func's  *)
(* result was returned, "empty": [] was returned, "raised").  The listing  *)
(* loops of process_movies, process_tvshows and process_music are the same *)
(* loop with a base wait of 5.                                             *)

FetchOutcomes == {"ok", "timeout", "connection", "other"}

Transient == {"timeout", "connection"}

BaseWaits == {2, 5}

(* a wait that does not grow with the attempt *)
wait_time_constant(attempt, base_wait) == base_wait

(* `wait_time = (attempt + 1) * base_wait', attempt counted from 0 *)
wait_time(attempt, base_wait) == (attempt + 1) * base_wait

(* `for attempt in range(max_retries): try: return fetch_func() except     *)
(* (Timeout, ConnectionError): if attempt < max_retries - 1: sleep;        *)
(* continue else: return []', and `return []' after the loop               *)
RECURSIVE RetryLoop(_, _, _, _, _)
RetryLoop(outcomes, retries, base_wait, attempt, waits) ==
    IF attempt >= retries
    THEN [attempts |-> attempt, waits |-> waits, result |-> "empty"]
    ELSE CASE outcomes[attempt + 1] = "ok" ->
                 [attempts |-> attempt + 1, waits |-> waits, result |-> "value"]
           [] outcomes[attempt + 1] = "other" ->
                 [attempts |-> attempt + 1, waits |-> waits, result |-> "raised"]
           [] OTHER ->
                 IF attempt < retries - 1
                 THEN RetryLoop(outcomes, retries, base_wait, attempt + 1,
                                Append(waits, wait_time(attempt, base_wait)))
                 ELSE [attempts |-> attempt + 1, waits |-> waits, result |-> "empty"]

InitRetry ==
    /\ store = EmptyStore
    /\ durable = store
    /\ schema = init_database(SchemaOfStore(store, TRUE), store).schema
    /\ pc = "idle"
    /\ todo = <<>>
    /\ runs = 0
    /\ USE_PARALLEL \in BOOLEAN
    /\ DOWNLOAD_IMAGES \in BOOLEAN
    /\ last = NoPass

(* one call fetch_with_retry(fetch_func, item_name, retries, base_wait) *)
FetchCall(outcomes, retries, base_wait) ==
    /\ pc = "idle"
    /\ pc' = "fetched"
    /\ LET r == RetryLoop(outcomes, retries, base_wait, 0, <<>>)
       IN  last' = [outcomes |-> outcomes, max_retries |-> retries, base_wait |-> base_wait,
                    attempts |-> r.attempts, waits |-> r.waits, result |-> r.result]
    /\ UNCHANGED <<store, durable, schema, todo, runs, USE_PARALLEL, DOWNLOAD_IMAGES>>

NextRetry ==
    \E retries \in 0..MaxRetriesArg, base_wait \in BaseWaits :
        \E outcomes \in [1..retries -> FetchOutcomes] : FetchCall(outcomes, retries, base_wait)

SpecRetry == InitRetry /\ [][NextRetry]_vars

----------------------------------------------------------------------------
(* Properties *)

TablesOf(lib) == Range(LibraryTables(lib))
LeafTable(lib) == LibraryTables(lib)[Len(LibraryTables(lib))]

Available(st, tbl) == {k \in Keys(st, tbl) : st[tbl][k].available = 1}

(* the step in which one library pass runs *)
PassStep == pc = "loop" /\ pc' = "pass"

(* the state in which a pass has just ended without raising *)
CompletedPass == pc = "pass" /\ last.outcome = "completed"

(* the listing of the library (library.all()) answered with no item *)
EmptyListing(p) ==
    /\ p.lib \in Libraries
    /\ p.fault = NoFault
    /\ IF p.lib = "Movies"
       THEN \A k \in LeafKeys : p.src.leaves[k].kind = "absent"
       ELSE p.src.tops = <<>>

(* C1: after every completed pass, for each entity type of the library,    *)
(* the rows with available = 1 are exactly the rows whose ids the pass     *)
(* observed.                                                               *)
C1_AvailableRowsAreTheObservedOnes ==
    CompletedPass =>
        \A t \in TablesOf(last.lib) : Available(store, t) = last.seen[t]

(* C2: mark_unavailable with a non-empty list of seen ids sets             *)
(* available = 0 on exactly the available rows of the table whose id is    *)
(* not in the list, deletes no row, leaves the rows of the seen ids as     *)
(* they are and changes no other table.                                    *)
C2_MarkFlipsExactlyTheUnseen ==
    [][(runs' = runs + 1 /\ last'.lib \in Tables /\ last'.seen[last'.lib] # {}) =>
          LET t == last'.lib
              seen == last'.seen[t]
          IN  /\ \A x \in Tables \ {t} : store'[x] = store[x]
              /\ Keys(store', t) = Keys(store, t)
              /\ \A k \in Keys(store, t) :
                    store'[t][k] = IF store[t][k].available = 1 /\ k \notin seen
                                   THEN [store[t][k] EXCEPT !.available = 0]
                                   ELSE store[t][k]]_vars

(* C3: a pass whose listing returns no top-level item marks every          *)
(* previously available row of each entity type of the library             *)
(* unavailable, in the connection's view and durably; it ends normally     *)
(* and leaves no available row of the library.                             *)
C3_EmptyLibraryMarksAllUnavailable ==
    [][(PassStep /\ EmptyListing(last')) =>
          /\ last'.outcome = "completed"
          /\ \A t \in TablesOf(last'.lib) :
                /\ \A k \in Available(store, t) :
                      /\ k \in Keys(store', t) /\ store'[t][k].available = 0
                      /\ k \in Keys(durable', t) /\ durable'[t][k].available = 0
                /\ Available(store', t) = {}]_vars

C3_Witness ==
    /\ pc = "pass"
    /\ EmptyListing(last)
    /\ last.outcome = "completed"
    /\ last.marked > 0

(* C4: no run removes a row from any entity table: a row that is in the    *)
(* committed store stays in it.                                            *)
C4_NoRowIsEverRemoved ==
    [][\A t \in Tables : Keys(durable, t) \subseteq Keys(durable', t)]_vars

(* C5: a row that is unavailable is available = 1 again after the first    *)
(* completed pass that observes its id.                                    *)
C5_ObservedRowBecomesAvailableAgain ==
    [][(PassStep /\ last'.outcome = "completed") =>
          \A t \in TablesOf(last'.lib) :
             \A k \in Keys(store, t) :
                (store[t][k].available = 0 /\ k \in last'.seen[t]) =>
                    (k \in Keys(store', t) /\ store'[t][k].available = 1)]_vars

(* C6: in sequential mode a leaf whose fingerprint is unchanged is in the  *)
(* pass's seen-id set, and its row is not marked unavailable by the pass.  *)
C6_UnchangedLeafIsSeen ==
    (pc = "pass" /\ ~last.par) =>
        \A x \in last.unchanged :
            /\ x[2] \in last.seen[x[1]]
            /\ x[2] \in Keys(store, x[1]) => store[x[1]][x[2]].available = 1
            /\ x[2] \in Keys(durable, x[1]) => durable[x[1]][x[2]].available = 1

C6_Witness ==
    /\ CompletedPass
    /\ ~last.par
    /\ last.marked > 0
    /\ \E x \in last.unchanged :
          x[2] \in Keys(durable, x[1]) /\ durable[x[1]][x[2]].available = 1

(* The children a pass observed under an aggregate, and the values over    *)
(* them.                                                                   *)
ObservedLeaves(p, m) == {l \in p.seen[LeafTable(p.lib)] : MidOf(l) = m}
ObservedMids(p, k) == {m \in p.seen[LibraryTables(p.lib)[2]] : TopOf(m) = k}
ObservedUnder(p, k) == UNION {ObservedLeaves(p, m) : m \in ObservedMids(p, k)}

Average(total, count) == IF count > 0 THEN total \div count ELSE 0

AggregateIsTrue(p, t, k, row) ==
    CASE t = "seasons" ->
           LET ch == ObservedLeaves(p, k)
           IN  /\ row.seasonTotalEpisode = Cardinality(ch)
               /\ row.seasonSizeBytes = SumOver(ch, LeafSizes(p.src))
               /\ row.avgSeasonEpisodeDuration =
                     Average(SumOver(ch, LeafDurations(p.src)), Cardinality(ch))
      [] t = "tv_shows" ->
           LET ch == ObservedUnder(p, k)
           IN  /\ row.showTotalEpisode = Cardinality(ch)
               /\ row.showSizeBytes = SumOver(ch, LeafSizes(p.src))
               /\ row.avgEpisodeDuration =
                     Average(SumOver(ch, LeafDurations(p.src)), Cardinality(ch))
      [] t = "albums" ->
           LET ch == ObservedLeaves(p, k)
           IN  /\ row.tracks = Cardinality(ch)
               /\ row.albumSizeBytes = SumOver(ch, LeafSizes(p.src))
               /\ row.albumDuration = SumOver(ch, LeafDurations(p.src))
      [] t = "artists" ->
           LET ch == ObservedUnder(p, k)
           IN  /\ row.totalAlbums = Cardinality(ObservedMids(p, k))
               /\ row.totalTracks = Cardinality(ch)
               /\ row.totalSizeBytes = SumOver(ch, LeafSizes(p.src))
      [] OTHER -> TRUE

AggregateTables == {"tv_shows", "seasons", "artists", "albums"}

(* C7: after every completed pass, the child count, the total size and the *)
(* average (or total) duration of each aggregate row the pass observed     *)
(* equal the values over all of its children observed in the pass.         *)
C7_AggregatesCoverAllObservedChildren ==
    CompletedPass =>
        \A t \in TablesOf(last.lib) \cap AggregateTables :
            \A k \in last.seen[t] \cap Keys(store, t) :
                AggregateIsTrue(last, t, k, store[t][k])

(* C8: two consecutive runs in the same mode over an unchanged source      *)
(* store the same aggregate rows: what the second pass leaves in an        *)
(* aggregate table is what the first run left there.                       *)
C8_RerunStoresTheSameAggregates ==
    [][(/\ PassStep
        /\ last.outcome = "completed"
        /\ last'.outcome = "completed"
        /\ last'.lib = last.lib /\ last'.src = last.src
        /\ last'.par = last.par /\ last'.img = last.img) =>
          \A t \in TablesOf(last.lib) \cap AggregateTables :
              \A k \in Keys(store, t) :
                  k \in Keys(store', t) /\ store'[t][k] = store[t][k]]_vars

(* C9: in sequential mode no thumbnail is fetched for a leaf whose         *)
(* fingerprint equals the one persisted for its id.                        *)
C9_UnchangedLeafFetchesNoThumbnail ==
    (pc = "pass" /\ ~last.par) => last.unchanged \cap last.fetched = {}

(* C10: an item without media or media parts is not in a batch written to  *)
(* the store and its id is not in the pass's seen-id set.                  *)
C10_ItemWithoutMediaIsIgnored ==
    pc = "pass" =>
        \A l \in LeafKeys :
            last.src.leaves[l].kind = "nomedia" =>
                /\ l \notin last.seen[LeafTable(last.lib)]
                /\ <<LeafTable(last.lib), l>> \notin last.batch

(* C11: the average duration built for a season or a show is               *)
(* floor(sum of durations / count) over the episodes of the current run    *)
(* and 0 when the count is 0, and the total size is the sum of their       *)
(* sizes.                                                                  *)
C11_AverageIsFloorAndZeroWhenEmpty ==
    last.outcome = "aggregated" =>
        \A x \in last.batch :
            LET ch == IF x[1] = "seasons" THEN ObservedLeaves(last, x[2])
                      ELSE ObservedUnder(last, x[2])
                avg == IF x[1] = "seasons" THEN x[3].avgSeasonEpisodeDuration
                       ELSE x[3].avgEpisodeDuration
                size == IF x[1] = "seasons" THEN x[3].seasonSizeBytes ELSE x[3].showSizeBytes
            IN  /\ avg = Average(SumOver(ch, LeafDurations(last.src)), Cardinality(ch))
                /\ size = SumOver(ch, LeafSizes(last.src))

(* C12: calculate_media_hash gives equal digests for equal tuples, and     *)
(* different digests for two tuples that differ in exactly one field.      *)
DifferingFields(x, y) == {f \in HashFields : x[f] # y[f]}

C12_HashIsDeterministicAndSensitive ==
    last.outcome = "hashed" =>
        /\ last.x = last.y => last.hash_x = last.hash_y
        /\ Cardinality(DifferingFields(last.x, last.y)) = 1 => last.hash_x # last.hash_y

C12_Witness ==
    /\ last.outcome = "hashed"
    /\ DifferingFields(last.x, last.y) = {"year"}
    /\ last.x.title = PyStr(<<"t", "|", "3">>)
    /\ last.hash_x # last.hash_y

(* What C13 calls the schema: tables, columns and indexes *)
SchemaOf(s) ==
    [tables |-> s.tables, indexes |-> s.indexes, hash_cols |-> s.hash_cols,
     hash_idx |-> s.hash_idx, meta_cols |-> s.meta_cols, fts_table |-> s.fts_table]

(* a step of run_migrations *)
MigrationStep == runs' = runs + 1 /\ last'.outcome = "migrated"

(* C13: the migration chain applied from version 0 a second time leaves    *)
(* the schema (tables, columns, indexes) and the stored version as the     *)
(* first application left them.                                            *)
C13_SecondChainChangesNothing ==
    [][(/\ MigrationStep
        /\ last'.current_version = 0
        /\ last.outcome \in {"migrated", "initialized"}
        /\ last.current_version = 0) =>
          /\ SchemaOf(schema') = SchemaOf(schema)
          /\ schema'.versions = schema.versions
          /\ get_schema_version(schema') = get_schema_version(schema)]_vars

C13_Witness ==
    /\ runs = 2
    /\ last.outcome = "migrated"
    /\ last.current_version = 0
    /\ last.applied = <<1, 2, 3>>
    /\ last.before.versions = {1, 2, 3}
    /\ last.before.hash_idx = HashTables
    /\ schema.fts_table

(* the schema changes of migration k *)
MigrationPresent(k, s) ==
    CASE k = 1 -> s.hash_cols = HashTables /\ s.hash_idx = HashTables
      [] k = 2 -> s.meta_cols = Tables
      [] k = 3 -> s.fts_table

(* C14: the stored schema version never decreases, and whenever it is at   *)
(* least k after an initialization or a migration run, the schema changes  *)
(* of migration k are in the database.                                     *)
C14_VersionGrowsAndMigrationsArePresent ==
    [][/\ get_schema_version(schema') >= get_schema_version(schema)
       /\ \A k \in 1..SCHEMA_VERSION :
             get_schema_version(schema') >= k => MigrationPresent(k, schema')]_vars

(* the migrations numbered from + 1 up to target, ascending *)
MigrationsBetween(from, target) == [i \in 1..(target - from) |-> from + i]

(* C15: from a stored version v not above the target, run_migrations       *)
(* applies exactly the migrations v + 1 .. target in ascending order and   *)
(* leaves the stored version equal to the target; with v at or above the   *)
(* target it changes nothing.                                              *)
C15_AppliesExactlyThePendingMigrations ==
    [][(runs' = runs + 1 /\ last'.outcome \in {"migrated", "initialized"}
            /\ last'.current_version = get_schema_version(schema)) =>
          LET v == get_schema_version(schema)
          IN  IF v >= SCHEMA_VERSION
              THEN /\ last'.applied = <<>>
                   /\ last'.outcome = "migrated" => schema' = schema
                   /\ get_schema_version(schema') = v
              ELSE /\ last'.applied = MigrationsBetween(v, SCHEMA_VERSION)
                   /\ get_schema_version(schema') = SCHEMA_VERSION]_vars

C15_Witness ==
    /\ last.outcome = "migrated"
    /\ last.current_version = 1
    /\ get_schema_version(last.before) = 1
    /\ last.applied = <<2, 3>>
    /\ get_schema_version(schema) = SCHEMA_VERSION

(* C16: without the fts5 module migration 3 creates no search table,       *)
(* records version 3 all the same, and the chain ends normally.            *)
C16_MissingFtsStillRecordsVersion3 ==
    [][(runs' = runs + 1 /\ last'.outcome \in {"migrated", "initialized"}
            /\ ~schema.fts5
            /\ \E i \in 1..Len(last'.applied) : last'.applied[i] = 3) =>
          /\ ~schema'.fts_table
          /\ schema'.fts_rows = {}
          /\ 3 \in schema'.versions
          /\ get_schema_version(schema') >= SCHEMA_VERSION]_vars

C16_Witness ==
    /\ last.outcome = "initialized"
    /\ ~schema.fts5
    /\ last.applied = <<1, 2, 3>>
    /\ 3 \in schema.versions
    /\ ~schema.fts_table

----------------------------------------------------------------------------
(* C17: when a batch insert of a pass raises partway, that pass commits    *)
(* nothing, so the rows earlier libraries committed stay as they were, and *)
(* no row of the failed batch becomes durable afterwards, not even when    *)
(* the pass of a later library commits on the same connection.             *)
FailedBatch(p) == p.failed_at # "none"

C17_FailedBatchNeverBecomesDurable ==
    [][/\ (pc = "loop" /\ pc' = "pass" /\ FailedBatch(last')) => durable' = durable
       /\ FailedBatch(last) =>
             \A e \in last.batch :
                 e[2] \in Keys(durable', e[1]) =>
                     /\ e[2] \in Keys(durable, e[1])
                     /\ durable'[e[1]][e[2]] = durable[e[1]][e[2]]]_vars

----------------------------------------------------------------------------
(* C18: the rows a pass writes and the availability flips of the same      *)
(* table become durable together: no state committed during a pass holds   *)
(* a row of the pass's batch in a table while a row of that table the pass *)
(* did not see is still marked available.                                  *)
StaleAvailable(p, st, t) ==
    {k \in Keys(st, t) : k \notin p.seen[t] /\ st[t][k].available = 1}

C18_UpsertAndReconciliationCommitTogether ==
    \A i \in 1..Len(last.batch_commit) :
        \A e \in last.batch :
            e[2] \in Keys(last.batch_commit[i], e[1]) =>
                StaleAvailable(last, last.batch_commit[i], e[1]) = {}

----------------------------------------------------------------------------
(* C19: when search_fts exists, a completed pass leaves every index entry  *)
(* of its movies, shows or artists with the available flag of the primary  *)
(* row: an entry that agreed with an available row before the pass still   *)
(* agrees with it afterwards, so every flip to unavailable reached the     *)
(* index in the same pass.                                                 *)
IndexAgrees(st, t, e) ==
    (e.type = type_map(t) /\ e.ratingKey \in Keys(st, t)) =>
        st[t][e.ratingKey].available = e.available

C19_FlipsReachTheIndex ==
    [][(pc = "loop" /\ pc' = "pass" /\ last'.outcome = "completed" /\ schema'.fts_table) =>
          \A t \in SearchTables \cap Range(LibraryTables(last'.lib)) :
              \A e \in schema'.fts_rows :
                  (e \in schema.fts_rows /\ IndexAgrees(store, t, e)) =>
                      IndexAgrees(store', t, e)]_vars

----------------------------------------------------------------------------
(* C20: without the full-text table (no fts5 module, or the table was      *)
(* never created), init_database still completes with the entity tables    *)
(* and the current schema version, and a pass in which no call to the      *)
(* server fails still completes: its batch is inserted and committed and   *)
(* its reconciliation runs, no exception reaching main().                  *)
C20_PersistenceSurvivesMissingIndex ==
    [][/\ (pc = "idle" /\ pc' = "loop" /\ ~schema'.fts_table) =>
             (schema'.tables /\ get_schema_version(schema') >= SCHEMA_VERSION)
       /\ (pc = "loop" /\ pc' = "pass" /\ ~schema.fts_table /\ last'.fault = NoFault) =>
             /\ last'.outcome = "completed"
             /\ \A e \in last'.batch : e[2] \in Keys(durable', e[1])]_vars

----------------------------------------------------------------------------
(* C21: in a pass with thumbnails, in either mode and however a download   *)
(* fails, every image task is still attempted, each failed download is     *)
(* counted as failed (and each successful one as downloaded), and the pass *)
(* goes on to persist its batch: it completes and every row of the batch,  *)
(* the rows of the entities whose thumbnail failed included, is durable.   *)
ImagePassDone == last.lib = "Music" /\ last.outcome # "none"

CallsThat(p, ok) == {i \in 1..Len(p.calls) : p.calls[i].ok = ok}

----------------------------------------------------------------------------
(* C23: only a timeout or a connection error is retried: a thumbnail whose *)
(* first request fails permanently (a status other than 200, or an error   *)
(* that is no timeout) is requested once.                                  *)
PermanentOutcomes == {"status", "error"}

C23_PermanentFailureIsNotRetried ==
    ImagePassDone =>
        \A i \in 1..Len(last.calls) :
            last.behaviour[last.calls[i].task][1] \in PermanentOutcomes =>
                last.calls[i].requests = 1

----------------------------------------------------------------------------
(* C22: every season, episode, album and track row, in the connection's    *)
(* view and in the committed database, names parents whose rows exist,     *)
(* also after a pass in which the processing of a parent was abandoned     *)
(* midway.                                                                 *)
ChildTables == {"seasons", "episodes", "albums", "tracks"}

Orphans(st) ==
    {<<t, k>> \in UNION {{<<c, x>> : x \in Keys(st, c)} : c \in ChildTables} :
        \E ref \in ParentRefs(t, st[t][k]) : ref[2] \notin Keys(st, ref[1])}

C22_EveryChildHasItsParent == Orphans(store) = {} /\ Orphans(durable) = {}

(* a completed pass in which an artist was abandoned after one of its      *)
(* albums had been collected, the album's row being stored                 *)
C22_Witness ==
    /\ pc = "pass"
    /\ last.lib = "Music"
    /\ last.outcome = "completed"
    /\ last.fault.call = "leaves"
    /\ last.fault.kind = "permanent"
    /\ \E e \in last.batch :
          /\ e[1] = "albums"
          /\ e[2] \in Keys(durable, "albums")
          /\ <<"artists", durable["albums"][e[2]].artistRatingKey>> \notin last.batch

----------------------------------------------------------------------------
(* C24: when one call for the children of a top-level item fails           *)
(* permanently, only that item is skipped: every other top-level item of   *)
(* the listing is processed and its row is stored, and the pass completes, *)
(* its batch committed and its reconciliation run.                         *)
TopTable(lib) == LibraryTables(lib)[1]

FailedTop(p) == IF p.fault.call = "children" THEN p.fault.key ELSE TopOf(p.fault.key)

C24_ItemErrorSkipsOnlyThatItem ==
    [][(/\ pc = "loop" /\ pc' = "pass"
        /\ last'.lib \in {"TV Shows", "Music"}
        /\ last'.fault.call \in {"children", "leaves"}
        /\ last'.fault.kind = "permanent") =>
          /\ last'.outcome = "completed"
          /\ \A k \in Range(last'.src.tops) \ {FailedTop(last')} :
                /\ k \in last'.seen[TopTable(last'.lib)]
                /\ k \in Keys(durable', TopTable(last'.lib))
                /\ durable'[TopTable(last'.lib)][k].available = 1]_vars

----------------------------------------------------------------------------
(* C25: whatever way a library's pass ends (returned, gave up on the       *)
(* listing, raised), the loop goes on with the libraries configured after  *)
(* it, none dropped, and the run ends only when none is left.              *)
C25_LibraryFailureDoesNotStopTheRun ==
    [][/\ pc = "pass" => (pc' = "loop" /\ todo' = Tail(todo))
       /\ (pc = "loop" /\ pc' = "idle") => todo = <<>>
       /\ (pc = "loop" /\ pc' = "pass") => (last'.lib = Head(todo) /\ todo' = todo)]_vars

(* the first of two libraries raised and the second is about to be processed *)
C25_Witness ==
    /\ pc = "loop"
    /\ Len(todo) = 1
    /\ last.outcome = "raised"
    /\ last.lib # Head(todo)

----------------------------------------------------------------------------
(* C26: when PLEX_URL or PLEX_TOKEN is missing, or the server cannot be    *)
(* reached, main() returns 1 and no library is processed: the loop is not  *)
(* entered and the rows of the database stay as they were, unless the      *)
(* database was asked to be rebuilt and is left without rows.              *)
Aborted(p) == p.outcome = "returned" /\ (~(p.url /\ p.token) \/ ~p.reachable)

C26_UnreachableCatalogAbortsTheRun ==
    [][(runs' = runs + 1 /\ Aborted(last') /\ last'.run = runs') =>
          /\ last'.exit_code = 1
          /\ pc' = "idle"
          /\ todo' = <<>>
          /\ \/ store' = store /\ durable' = durable
             \/ last'.rebuild /\ store' = EmptyStore /\ durable' = EmptyStore]_vars

(* main() returned 1 because the server was unreachable, on a database    *)
(* that holds rows                                                         *)
C26_Witness ==
    /\ Aborted(last)
    /\ last.url /\ last.token /\ ~last.reachable
    /\ last.exit_code = 1
    /\ Keys(durable, "movies") # {}
    /\ get_schema_version(schema) = SCHEMA_VERSION

----------------------------------------------------------------------------
(* C27: every entity a completed pass observed is a row of that pass's     *)
(* batch of INSERT OR REPLACE statements (the only statements that write   *)
(* lastSeen), also a leaf whose fingerprint is the stored one.  Passes in   *)
(* which a call to the server failed are left out.                         *)
C27_EveryObservedEntityIsUpserted ==
    (CompletedPass /\ last.fault.kind = "none") =>
        \A t \in TablesOf(last.lib) :
            \A k \in last.seen[t] : <<t, k>> \in last.batch

----------------------------------------------------------------------------
(* C28: for every artist a completed pass upserted, totalAlbums is the     *)
(* number of albums fetched for the artist in the pass, totalTracks the    *)
(* number of tracks under those albums and totalSizeBytes the sum of the   *)
(* sizes of those albums.                                                  *)
AlbumsFetched(p, k) == {m \in p.seen["albums"] : TopOf(m) = k}
TracksUnder(p, albums) == {l \in p.seen["tracks"] : MidOf(l) \in albums}

C28_ArtistTotalsCoverItsAlbums ==
    (CompletedPass /\ last.lib = "Music" /\ last.fault.kind = "none") =>
        \A k \in Keys(store, "artists") :
            <<"artists", k>> \in last.batch =>
                LET albums == AlbumsFetched(last, k)
                    row == store["artists"][k]
                IN  /\ row.totalAlbums = Cardinality(albums)
                    /\ row.totalTracks = Cardinality(TracksUnder(last, albums))
                    /\ row.totalSizeBytes =
                          SumOver(TracksUnder(last, albums), LeafSizes(last.src))

----------------------------------------------------------------------------
(* C29: after a migration step was cut short the stored version is the     *)
(* number of the last step that completed, and the next initialization     *)
(* re-applies the step: it ends at the target version with the schema an   *)
(* initialization that was not cut short would have left.                  *)
C29_InterruptedStepIsReapplied ==
    /\ last.outcome = "aborted" => get_schema_version(schema) = last.at.step - 1
    /\ last.outcome = "reinitialized" =>
          /\ get_schema_version(schema) = SCHEMA_VERSION
          /\ schema = init_database(last.before, durable).schema

----------------------------------------------------------------------------
(* C30: with DOWNLOAD_IMAGES on, a pass in which no call to the server     *)
(* failed fetches the thumbnail of every show, season, artist and album it *)
(* observed, whether or not a leaf under it changed; every album of an     *)
(* artist with several albums is among them.                               *)
C30_EveryAggregateGetsAThumbnailTask ==
    (pc = "pass" /\ last.lib \in {"TV Shows", "Music"} /\ last.img
       /\ last.fault.kind = "none") =>
        \A t \in TablesOf(last.lib) \cap AggregateTables :
            \A k \in last.seen[t] : <<t, k>> \in last.fetched


(* the pairs <<parent table, child table>> of the schema, closed under     *)
(* descent                                                                 *)
Descent ==
    {<<"tv_shows", "seasons">>, <<"seasons", "episodes">>, <<"tv_shows", "episodes">>,
     <<"artists", "albums">>, <<"albums", "tracks">>, <<"artists", "tracks">>}

InsertedAt(log, tbl) == {i \in DOMAIN log : log[i] = Step("insert", tbl)}

(* C31: within a library pass the upsert of a parent type precedes the     *)
(* upsert of its child types: whenever a pass has upserted both a parent   *)
(* table and one of its child tables, the parent's upsert came first       *)
(* (shows, seasons, episodes; artists, albums, tracks).                    *)
C31_ParentUpsertPrecedesChildUpsert ==
    pc = "pass" =>
        \A d \in Descent :
            \A i \in InsertedAt(last.log, d[1]), j \in InsertedAt(last.log, d[2]) : i < j

C31_Witness ==
    /\ CompletedPass
    /\ last.lib = "Music"
    /\ \A t \in {"artists", "albums", "tracks"} : InsertedAt(last.log, t) # {}


InDownloads == pc \in {"submit", "as_completed", "sequential", "downloaded"}

(* C32: in concurrent mode at most 10 image tasks execute at the same      *)
(* time; in sequential mode at most one image download is in progress at   *)
(* any time.                                                               *)
C32_BoundedImageConcurrency ==
    InDownloads => last.running <= (IF last.par THEN 10 ELSE 1)

C32_Witness ==
    /\ pc = "as_completed"
    /\ last.par
    /\ last.running = max_workers
    /\ last.queued > 0


(* C37: download_images_parallel returns counters whose sum is the number  *)
(* of tasks it was given, each task counted exactly once, as downloaded    *)
(* when its worker returned success and as failed when it returned failure *)
(* or raised, whatever the order in which the workers complete; until it   *)
(* returns, the counters, the uncounted futures and the unfinished tasks   *)
(* add up to the tasks given.                                              *)
C37_EveryTaskIsCountedOnce ==
    (InDownloads /\ last.par) =>
        /\ last.downloaded + last.failed + Total(last.done) + Total(last.left) = last.tasks
        /\ last.unsubmitted + last.queued + last.running = Total(last.left)
        /\ pc = "downloaded" =>
              /\ last.downloaded + last.failed = last.tasks
              /\ last.downloaded = last.given["ok"]
              /\ last.failed = last.given["failed"] + last.given["raised"]

C37_Witness ==
    /\ pc = "downloaded"
    /\ last.par
    /\ last.tasks > max_workers
    /\ last.downloaded > 0
    /\ last.failed = MaxFailing + MaxRaising


(* the attempts of the call recorded in `last' that failed transiently *)
FailedAttempts == {k \in 1..last.attempts : last.outcomes[k] \in Transient}

(* C33: fetch_with_retry makes at most max_retries attempts; after its     *)
(* k-th failed attempt it waits k times base_wait before the next attempt, *)
(* so the waits grow linearly; it returns the result of the first          *)
(* successful attempt; and it always ends, with an empty list when every   *)
(* attempt failed transiently.                                             *)
C33_BoundedRetryWithLinearBackoff ==
    pc = "fetched" =>
        /\ last.attempts <= last.max_retries
        /\ \A k \in 1..Len(last.waits) :
              k \in FailedAttempts /\ last.waits[k] = k * last.base_wait
        /\ \A k \in FailedAttempts : k < last.attempts => k \in 1..Len(last.waits)
        /\ last.result \in {"value", "empty", "raised"}
        /\ \A k \in 1..last.max_retries :
              (last.outcomes[k] = "ok" /\ \A j \in 1..(k - 1) : last.outcomes[j] \in Transient)
                  => last.result = "value" /\ last.attempts = k
        /\ (\A k \in 1..last.max_retries : last.outcomes[k] \in Transient)
              => last.result = "empty"

C33_Witness ==
    /\ pc = "fetched"
    /\ last.max_retries = 3
    /\ last.base_wait = 2
    /\ last.attempts = 3
    /\ last.waits = <<2, 4>>
    /\ last.result = "empty"


StepsOf(log, op) == {i \in DOMAIN log : log[i][1] = op}

FailedParentTable(p) == LibraryTables(p.lib)[IF p.fault.call = "children" THEN 1 ELSE 2]
FailedChildTable(p) == LibraryTables(p.lib)[IF p.fault.call = "children" THEN 2 ELSE 3]

StoredChildren(st, ptbl, ctbl, k) ==
    {c \in Keys(st, ctbl) : <<ptbl, k>> \in ParentRefs(ctbl, st[ctbl][c])}

ChildFetchFailed(p) ==
    /\ p.lib \in {"TV Shows", "Music"}
    /\ p.fault.kind = "transient"
    /\ p.fault.call \in {"children", "leaves"}

(* C35: when the fetch of a parent's children (a show's seasons, a         *)
(* season's episodes, an artist's albums, an album's tracks) fails         *)
(* transiently on every attempt, the pass treats the list as empty: the    *)
(* parent is still upserted, and the children of it that were stored       *)
(* before the pass are still stored after it and are marked unavailable.   *)
C35_FailedChildFetchIsAnEmptyList ==
    [][(PassStep /\ ChildFetchFailed(last'))
          => LET ptbl == FailedParentTable(last')
                 ctbl == FailedChildTable(last')
                 k == last'.fault.key
             IN  /\ k \in Keys(store', ptbl)
                 /\ Step("insert", ptbl) \in Range(last'.log)
                 /\ \A c \in StoredChildren(store, ptbl, ctbl, k) :
                       /\ c \in Keys(store', ctbl)
                       /\ store'[ctbl][c].available = 0]_vars


ListingFailed(p) == p.fault.call = "list" /\ p.fault.kind = "transient"

(* the listing succeeded and returned no item *)
ListingEmpty(p) ==
    /\ p.fault.kind = "none"
    /\ IF p.lib = "Movies" THEN \A k \in LeafKeys : p.src.leaves[k].kind = "absent"
       ELSE p.src.tops = <<>>

(* C36: when listing a library's top-level items fails transiently on all  *)
(* three attempts, the pass returns without upserting or reconciling       *)
(* anything, and no row changes; whereas a listing that succeeds with an   *)
(* empty result marks every row of the library unavailable.                *)
C36_FailedListingChangesNothing ==
    [][/\ (PassStep /\ ListingFailed(last'))
            => /\ last'.outcome = "list_failed"
               /\ last'.log = <<>>
               /\ store' = store
               /\ durable' = durable
       /\ (PassStep /\ ListingEmpty(last'))
            => \A t \in TablesOf(last'.lib) : \A k \in Keys(store', t) :
                  store'[t][k].available = 0]_vars

C36_Witness ==
    /\ pc = "pass"
    /\ ListingFailed(last)
    /\ last.outcome = "list_failed"
    /\ \A t \in TablesOf(last.lib) : \E k \in Keys(store, t) : store[t][k].available = 1


(* the rows the pass recorded in p would have left in the store `st' had   *)
(* thumbnails been switched the other way                                  *)
RowsWithImagesToggled(st, dur, p) ==
    CASE p.lib = "Movies" -> process_movies(st, dur, p.par, ~p.img, p.src, p.fault).st
      [] p.lib = "TV Shows" -> process_tvshows(st, dur, p.par, ~p.img, p.src, p.fault).st
      [] p.lib = "Music" -> process_music(st, dur, p.par, ~p.img, p.src, p.fault).st

(* C38: the rows a pass persists do not depend on the image-refresh        *)
(* setting: the same pass over the same source and the same store with     *)
(* thumbnails switched the other way leaves identical rows (the model      *)
(* keeps no timestamp), artist totals included.                            *)
C38_RowsIndependentOfImageSetting ==
    [][PassStep => store' = RowsWithImagesToggled(store, durable, last')]_vars


(* C39: the search index holds at most one entry for each pair of type and *)
(* ratingKey, however often the database is initialized.                   *)
C39_OneIndexEntryPerEntity ==
    \A e1 \in schema.fts_rows, e2 \in schema.fts_rows :
        (e1.type = e2.type /\ e1.ratingKey = e2.ratingKey) => e1 = e2


(* main() returned 1 at `except Exception' around PlexServer(...) *)
Unreachable(p) == p.outcome = "returned" /\ p.url /\ p.token /\ ~p.reachable

EmptyAtTarget(s) ==
    /\ s.tables
    /\ get_schema_version(s) = SCHEMA_VERSION
    /\ s.fts_rows = {}

(* C40: the database is initialized, migrated and, under --rebuild-db,     *)
(* dropped before the connection to the server is attempted: a run that    *)
(* aborts because the server is unreachable has brought the schema to the  *)
(* target version; it leaves every row unchanged when rebuild is off, and  *)
(* an empty database at the target version when rebuild is on.             *)
C40_StoreIsPreparedBeforeTheCatalog ==
    [][(runs' = runs + 1 /\ Unreachable(last') /\ last'.run = runs') =>
          /\ get_schema_version(schema') = SCHEMA_VERSION
          /\ ~last'.rebuild => (store' = store /\ durable' = durable)
          /\ last'.rebuild => /\ store' = EmptyStore
                              /\ durable' = EmptyStore
                              /\ EmptyAtTarget(schema')]_vars

(* aborted under --rebuild-db on a database that held rows *)
C40_Witness ==
    /\ Unreachable(last)
    /\ last.rebuild
    /\ last.run = runs
    /\ Keys(last.before, "movies") # {}
    /\ store = EmptyStore
    /\ get_schema_version(schema) = SCHEMA_VERSION

====
